---- MODULE Spec2Model ----
(***************************************************************************)
(* Model of the popup-promo attribution engine:                            *)
(*   src/src/utils/extractPromo.js            (response-listener extractor,*)
(*                                             lines 288-770; lines 1-287  *)
(*                                             hold its first version)     *)
(*   src/src/utils/extractPromoWithDiscounts.js (requestfinished extractor)*)
(*   src/src/phaseA_discover.js               (discovery of the queue)     *)
(*   src/src/phaseB_extract.js                (batch runner)               *)
(*   src/src/scrape-from-whpcodes.js          (worker pool, scrapeOne)     *)
(*   src/src/update_discounts.js              (discount update)            *)
(*   src/unnamed/part_001                     (simple_discount_extract.js, *)
(*                                             the discount backfill)      *)
(*                                                                         *)
(* Text is modelled lexically.  A URL is a sequence of characters.  A body *)
(* is a sequence of tokens; a token carries its kind k, a keyword s, a     *)
(* variable text t (a sequence of characters) and a number n.  Regular     *)
(* expressions of the source are translated to predicates over characters  *)
(* (hosts, routes, codes) or over tokens (bodies).  An optional number is  *)
(* <<>> (null) or <<n>>; a null string is the empty sequence.              *)
(***************************************************************************)
EXTENDS Integers, Sequences, FiniteSets, TLC

VARIABLES
  variant,        \* which extractor file runs: "response" | "requestfinished"
  opts,           \* the options of the call: currentRoute, onlyThisCode, timeoutMs
  pageUrl,        \* page.url(), a Urls key
  ctx,            \* PageIdentity {route, productId, companyId}
  pc,             \* position of the runner + extractor sequence
  attached,       \* the handler is subscribed on the page
  pending,        \* handler calls suspended at their await of the body
  hits,           \* accepted candidates, in push order
  responseCache,  \* responses cached for the onlyThisCode rescue
  now,            \* Date.now()
  elapsed,        \* milliseconds spent inside the extractor call
  seen,           \* responses delivered to the handler, in order
  missed,         \* responses the page received while no handler was attached
  usedHits,       \* the hits the result was computed from
  result,         \* the value returned (a sequence of 0 or 1 result records)
  outcome,        \* "running" | "returned" | "threw"
  trace,          \* page operations issued so far, in order
  batch,          \* state of the phase-B batch runner (<<>> outside a batch run)
  unit,           \* the last call of a helper made on its own: fn, in, out, log
  pool,           \* state of runPool of scrape-from-whpcodes.js (<<>> outside it)
  scrape,         \* state of one scrapeOne call of scrape-from-whpcodes.js (<<>> outside it)
  disc,           \* state of the phase-A discovery runs (<<>> outside them)
  legacy,         \* state of one call of the first extractPromo.js version (<<>> outside it)
  job             \* state of one run of a maintenance script: the discount backfill
                  \* or update_discounts.js (<<>> outside them)

evars == <<variant, opts, pageUrl, ctx, pc, attached, pending, hits,
           responseCache, now, elapsed, seen, missed, usedHits,
           result, outcome, trace>>
pvars == <<pool, scrape, disc, legacy, job>>
vars == <<evars, batch, unit, pvars>>

-----------------------------------------------------------------------------
(* Characters and strings *)

NullStr == <<>>                  \* null / undefined / '' (all falsy)
NoNum == <<>>                    \* a null number
Num(n) == <<n>>
Hundredths(h) == <<h, 100>>      \* the number h/100 where it is not whole
NearNum(n) == <<n, 1, 1>>        \* a double next to n that is not n

Lower(c) ==
  CASE c = "A" -> "a" [] c = "B" -> "b" [] c = "P" -> "p" [] c = "R" -> "r"
    [] c = "O" -> "o" [] c = "M" -> "m" [] c = "W" -> "w" [] c = "H" -> "h"
    [] c = "C" -> "c" [] OTHER -> c

toLowerCase(s) == [i \in 1..Len(s) |-> Lower(s[i])]

\* String.prototype.includes
includes(hay, needle) ==
  \E i \in 0..(Len(hay) - Len(needle)) :
     \A j \in 1..Len(needle) : hay[i + j] = needle[j]

endsWith(hay, needle) ==
  /\ Len(hay) >= Len(needle)
  /\ \A j \in 1..Len(needle) : hay[Len(hay) - Len(needle) + j] = needle[j]

startsWith(hay, needle) ==
  /\ Len(hay) >= Len(needle)
  /\ \A j \in 1..Len(needle) : hay[j] = needle[j]

LowerAlnum == {"a", "b", "c", "d", "e", "f", "g", "h", "i", "j", "k", "l",
               "m", "n", "o", "p", "q", "r", "s", "t", "u", "v", "w", "x",
               "y", "z", "0", "1", "2", "3", "4", "5", "6", "7", "8", "9"}

Max(a, b) == IF a >= b THEN a ELSE b
Min(a, b) == IF a <= b THEN a ELSE b

RECURSIVE Join(_, _)
Join(parts, sep) ==
  IF parts = <<>> THEN <<>>
  ELSE IF Len(parts) = 1 THEN parts[1]
  ELSE parts[1] \o sep \o Join(Tail(parts), sep)

-----------------------------------------------------------------------------
(* The code shape  promo-[a-z0-9-]{6,}  under the i flag *)

PromoDash == <<"p", "r", "o", "m", "o", "-">>
MinCodeTail == 6

IsCodeShape(t) ==
  /\ Len(t) >= Len(PromoDash) + MinCodeTail
  /\ startsWith(toLowerCase(t), PromoDash)
  /\ \A i \in (Len(PromoDash) + 1)..Len(t) :
        toLowerCase(t)[i] \in LowerAlnum \cup {"-"}

CodeA == PromoDash \o <<"a", "a", "a", "a", "a", "a">>
CodeAUpper == <<"P", "R", "O", "M", "O", "-", "A", "A", "A", "A", "A", "A">>
CodeB == PromoDash \o <<"b", "b", "b", "b", "b", "b">>
ShortCode == PromoDash \o <<"a", "b">>       \* promo-ab: too short to be a code

-----------------------------------------------------------------------------
(* Tokens of a body *)

Tok(k, s, t, n) == [k |-> k, s |-> s, t |-> t, n |-> n]
LB == Tok("lb", "", <<>>, 0)                 \* {
RB == Tok("rb", "", <<>>, 0)                 \* }
COLON == Tok("colon", "", <<>>, 0)           \* :
COMMA == Tok("comma", "", <<>>, 0)           \* ,
Key(s) == Tok("key", s, <<>>, 0)             \* "<keyword>"
SVal(t) == Tok("str", "", t, 0)              \* "<text>"
Pct(n) == Tok("pct", "", <<>>, n)            \* "<n>%"
NumTok(n) == Tok("num", "", <<>>, n)         \* <n>
DecTok(h) == Tok("dec", "", <<>>, h)         \* <h/100>, written 0.07, 0.3, 45.5
DotTok(h) == Tok("dot", "", <<>>, h)         \* <h/100> written without its 0: .3
Bare(t) == Tok("bare", "", t, 0)             \* <text>, unquoted
Link(t) == Tok("link", "", t, 0)             \* "https://whop.com/<text>"

IsStringTok(x) == x.k \in {"key", "str", "pct", "link"}

\* /promo-/ finds the token
TokHasPromoDash(x) ==
  x.k \in {"str", "bare"} /\ includes(x.t, PromoDash)

\* /popupPromoCode/ finds the token
TokHasPopupWord(x) == x.k \in {"key", "word"} /\ x.s = "popupPromoCode"

-----------------------------------------------------------------------------
(* URLs *)

Https == <<"h", "t", "t", "p", "s", ":", "/", "/">>
Slash == <<"/">>
PromoCodeEq == <<"p", "r", "o", "m", "o", "C", "o", "d", "e", "=">>
Graphql == <<"g", "r", "a", "p", "h", "q", "l">>
WhopCom == <<"w", "h", "o", "p", ".", "c", "o", "m">>

Url(host, path, promoCode) == [host |-> host, path |-> path, promoCode |-> promoCode]

\* resp.url(): the URL as text
UrlString(u) ==
  Https \o u.host \o Slash \o Join(u.path, Slash)
    \o (IF u.promoCode = NullStr THEN <<>> ELSE <<"?">> \o PromoCodeEq \o u.promoCode)

\* new URL(u).hostname
hostname(u) == u.host

RouteA == <<"y", "d">>            \* the route of the page under inspection
RouteB == <<"j", "b">>            \* the route of an unrelated page
ProductP == <<"p", "i", "d">>     \* a productId
ApiSeg == <<"a", "p", "i">>
GraphqlSeg == <<"g", "r", "a", "p", "h", "q", "l">>
LogoSeg == <<"l", "o", "g", "o", ".", "p", "n", "g">>

HostWhop == WhopCom
HostLookalike == <<"n", "o", "t">> \o WhopCom              \* notwhop.com
HostForeign == <<"c", "d", "n", ".", "i", "o">>            \* cdn.io

\* the expected application domain: whop.com and its subdomains
IsExpectedHost(h) == h = WhopCom \/ endsWith(h, <<".">> \o WhopCom)

-----------------------------------------------------------------------------
(* Bodies *)

\* {"popupPromoCode":{"code":"promo-aaaaaa","discountOff":"20%"}}
BodyPopupA ==
  <<LB, Key("popupPromoCode"), COLON, LB, Key("code"), COLON, SVal(CodeA), COMMA,
    Key("discountOff"), COLON, Pct(20), RB, RB>>
\* {"code":"promo-aaaaaa"}
BodyPlainA == <<LB, Key("code"), COLON, SVal(CodeA), RB>>
\* {"route":"jb","code":"promo-bbbbbb","discountOff":"30%"}
BodyFeedB ==
  <<LB, Key("route"), COLON, SVal(RouteB), COMMA, Key("code"), COLON, SVal(CodeB),
    COMMA, Key("discountOff"), COLON, Pct(30), RB>>
\* {"url":"https://whop.com/yd","code":"promo-bbbbbb"}
BodyMentionB ==
  <<LB, Key("url"), COLON, Link(RouteA), COMMA, Key("code"), COLON, SVal(CodeB), RB>>
\* {"code":"promo-aaaaaa","amountOff":5}
BodyAmountA ==
  <<LB, Key("code"), COLON, SVal(CodeA), COMMA, Key("amountOff"), COLON, NumTok(5), RB>>
\* {"route":"yd"}
BodyNoPromo == <<LB, Key("route"), COLON, SVal(RouteA), RB>>
\* <p>PROMO-AAAAAA</p> promo-ab
BodyText == <<Bare(CodeAUpper), Bare(ShortCode)>>

NoPost == [route |-> NullStr, productId |-> NullStr, companyId |-> NullStr]
PostFor(r) == [route |-> r, productId |-> NullStr, companyId |-> NullStr]
PostForProduct(p) == [route |-> NullStr, productId |-> p, companyId |-> NullStr]

Resp(url, ct, body, post) == [url |-> url, ct |-> ct, body |-> body, post |-> post]

\* The responses a page visit can produce, by name.
Responses ==
  [ doc       |-> Resp(Url(HostWhop, <<RouteA>>, NullStr), "text/html", BodyPopupA, NoPost),
    plain     |-> Resp(Url(HostWhop, <<RouteA>>, NullStr), "application/json", BodyPlainA, NoPost),
    feed      |-> Resp(Url(HostWhop, <<ApiSeg, GraphqlSeg>>, NullStr), "application/json",
                       BodyFeedB, PostFor(RouteB)),
    mention   |-> Resp(Url(HostWhop, <<ApiSeg, GraphqlSeg>>, NullStr), "application/json",
                       BodyMentionB, PostFor(RouteB)),
    foreign   |-> Resp(Url(HostForeign, <<RouteA>>, NullStr), "application/json",
                       BodyAmountA, NoPost),
    lookalike |-> Resp(Url(HostLookalike, <<RouteA>>, NullStr), "text/html", BodyPlainA, NoPost),
    image     |-> Resp(Url(HostWhop, <<RouteA, LogoSeg>>, NullStr), "image/png", BodyText, NoPost),
    empty     |-> Resp(Url(HostWhop, <<RouteA>>, NullStr), "text/html", BodyNoPromo, NoPost) ]

RespIds == DOMAIN Responses

-----------------------------------------------------------------------------
(* Scanning a body *)

BodyHas(body, P(_)) == \E i \in 1..Len(body) : P(body[i])

\* "<key>"\s*:  somewhere in the body
BodyHasKeyColon(body, key) ==
  \E i \in 1..(Len(body) - 1) : body[i] = Key(key) /\ body[i + 1] = COLON

\* body.includes(`"<key>":"<text>"`)
BodyHasPair(body, key, text) ==
  \E i \in 1..(Len(body) - 2) :
     body[i] = Key(key) /\ body[i + 1] = COLON /\ body[i + 2] = SVal(text)

\* body.includes(`whop.com/<route>`)
BodyHasWhopLink(body, route) ==
  \E i \in 1..Len(body) : body[i].k = "link" /\ startsWith(body[i].t, route)

\* /promo-|popupPromoCode|promoCode=/.test(body) || /promoCode=/.test(urlStr)
\* (no i flag: an upper-case PROMO- does not pass)
precheck(body, urlStr) ==
  \/ BodyHas(body, TokHasPromoDash)
  \/ BodyHas(body, TokHasPopupWord)
  \/ includes(urlStr, PromoCodeEq)

\* onlyThisCode filter of the handler: the response must contain the code
hasOnlyThisCode(body, urlStr, only) ==
  \/ \E i \in 1..Len(body) :
        body[i].k \in {"str", "bare", "estr"}
          /\ includes(toLowerCase(body[i].t), toLowerCase(only))
  \/ includes(toLowerCase(urlStr), PromoCodeEq \o toLowerCase(only))

\* the condition under which the handler caches a response for the rescue
cacheable(body, urlStr) ==
  \/ BodyHas(body, TokHasPopupWord)
  \/ \E i \in 1..Len(body) : body[i].k \in {"str", "bare", "estr"} /\ IsCodeShape(body[i].t)
  \/ includes(toLowerCase(urlStr), Graphql)

\* the positions at which one of PROMO_REGEXES matches, in body order
CodePositions(body) ==
  {i \in 1..Len(body) : body[i].k \in {"str", "bare", "estr"} /\ IsCodeShape(body[i].t)}

\* for (const c of findCodes(body)) codes.add(c.toLowerCase())
findCodes(body) == {toLowerCase(body[i].t) : i \in CodePositions(body)}

\* /[?&]promoCode=(promo-[a-z0-9-]{6,})/i.exec(urlStr)
urlParam(u) ==
  IF u.promoCode # NullStr /\ IsCodeShape(u.promoCode)
  THEN {toLowerCase(u.promoCode)} ELSE {}

\* body.toLowerCase().indexOf(code): the first token holding the code, 0 if none
indexOfCode(body, code) ==
  LET S == {i \in 1..Len(body) :
              body[i].k \in {"str", "bare", "estr"}
                /\ includes(toLowerCase(body[i].t), toLowerCase(code))}
  IN IF S = {} THEN 0 ELSE CHOOSE i \in S : \A j \in S : i <= j

-----------------------------------------------------------------------------
(* Content types *)

\* /image|font|video|audio|css/.test(ct)
IsStaticCt(ct) == ct \in {"image/png", "font/woff2", "text/css"}
\* /text\/html|application\/json|text\/x-component/i.test(ct)
IsDocCt(ct) == ct \in {"text/html", "application/json", "text/x-component"}
\* ct.includes('application/json') || ct.includes('text/x-component')
IsJsonOrRsc(ct) == ct \in {"application/json", "text/x-component"}

-----------------------------------------------------------------------------
(* The attribution filter *)

\* /whop\.com$/i.test(hostname)
hostIsWhop(h) == endsWith(toLowerCase(h), WhopCom)

\* a structured rule that wants the route inside the body and nothing else
acceptStructuredBodyLinkOnly(c, u, body) ==
  /\ BodyHas(body, TokHasPopupWord)
  /\ c.route # NullStr
  /\ BodyHasWhopLink(body, c.route)

\* rule 2 (both files): a structured popupPromoCode record
acceptStructured(c, u, body) ==
  /\ BodyHas(body, TokHasPopupWord)
  /\ \/ /\ c.route # NullStr
        /\ \/ BodyHasWhopLink(body, c.route)
           \/ includes(UrlString(u), Slash \o c.route)
     \/ BodyHasKeyColon(body, "popupPromoCode")

\* rule 2c (both files): an HTML/JSON/RSC response for this route
acceptRouteDoc(c, u, body, ct) ==
  /\ IsDocCt(ct)
  /\ c.route # NullStr
  /\ \/ includes(UrlString(u), Slash \o c.route)
     \/ BodyHasWhopLink(body, c.route)

isGraphQL(u) == includes(toLowerCase(UrlString(u)), Graphql)

\* extractPromo.js: the identity is looked for in the response body
graphqlBodyMatch(c, body) ==
  \/ c.route # NullStr /\ (BodyHasPair(body, "route", c.route) \/ BodyHasWhopLink(body, c.route))
  \/ c.productId # NullStr /\ BodyHasPair(body, "productId", c.productId)
  \/ c.companyId # NullStr /\ BodyHasPair(body, "companyId", c.companyId)

\* extractPromoWithDiscounts.js: the identity is looked for in the posted variables
graphqlPostMatch(c, post) ==
  \/ c.route # NullStr /\ post.route # NullStr
       /\ toLowerCase(post.route) = toLowerCase(c.route)
  \/ c.productId # NullStr /\ post.productId # NullStr /\ post.productId = c.productId
  \/ c.companyId # NullStr /\ post.companyId # NullStr /\ post.companyId = c.companyId

\* accept of extractPromo.js (called with req: null)
acceptResponse(c, u, body, ct) ==
  IF ~hostIsWhop(hostname(u)) THEN FALSE
  ELSE IF acceptStructured(c, u, body) THEN TRUE
  ELSE IF isGraphQL(u) THEN graphqlBodyMatch(c, body)
  ELSE acceptRouteDoc(c, u, body, ct)

\* accept of extractPromoWithDiscounts.js (called with the finished request)
acceptRequest(c, u, body, ct, post) ==
  IF ~hostIsWhop(hostname(u)) THEN FALSE
  ELSE IF acceptStructured(c, u, body) THEN TRUE
  ELSE IF isGraphQL(u) THEN graphqlPostMatch(c, post)
  ELSE acceptRouteDoc(c, u, body, ct)

accept(v, c, u, body, ct, post) ==
  IF v = "response" THEN acceptResponse(c, u, body, ct)
  ELSE acceptRequest(c, u, body, ct, post)

-----------------------------------------------------------------------------
(* Structured records inside a body *)

\* nesting depth after token i, counted from token start
DepthAt(text, start, i) ==
  Cardinality({j \in start..i : text[j].k = "lb"})
    - Cardinality({j \in start..i : text[j].k = "rb"})

\* walk backwards from idx to the previous '{' (0 if there is none)
openBefore(text, idx) ==
  LET S == {i \in 1..Min(idx, Len(text)) : text[i].k = "lb"}
  IN IF S = {} THEN 0 ELSE CHOOSE i \in S : \A j \in S : j <= i

\* walk forwards from start to the '}' that brings the depth back to 0 (0 if none)
closeAfter(text, start) ==
  LET S == {i \in start..Len(text) : DepthAt(text, start, i) = 0}
  IN IF S = {} THEN 0 ELSE CHOOSE i \in S : \A j \in S : i <= j

\* s.replace(/\\"/g, '"'): an escaped-quote string becomes a plain one
unescapeRsc(text) ==
  [i \in 1..Len(text) |->
     IF text[i].k = "estr" THEN SVal(text[i].t)
     ELSE IF text[i].k = "ekey" THEN Key(text[i].s)
     ELSE text[i]]

\* JSON.parse succeeds on the slice: an object of "key": value members whose
\* values are strings, numbers or objects
RECURSIVE JsonScan(_, _, _, _)
JsonScan(raw, i, depth, st) ==
  IF i > Len(raw) THEN depth = 0 /\ st = "end"
  ELSE LET x == raw[i] IN
    CASE st = "start" -> x.k = "lb" /\ JsonScan(raw, i + 1, 1, "first")
      [] st = "first" ->
           \/ IsStringTok(x) /\ JsonScan(raw, i + 1, depth, "colon")
           \/ x.k = "rb" /\ JsonScan(raw, i + 1, depth - 1, IF depth = 1 THEN "end" ELSE "after")
      [] st = "key" -> IsStringTok(x) /\ JsonScan(raw, i + 1, depth, "colon")
      [] st = "colon" -> x.k = "colon" /\ JsonScan(raw, i + 1, depth, "value")
      [] st = "value" ->
           \/ (IsStringTok(x) \/ x.k \in {"num", "dec"})
                /\ JsonScan(raw, i + 1, depth, "after")
           \/ x.k = "lb" /\ JsonScan(raw, i + 1, depth + 1, "first")
      [] st = "after" ->
           \/ x.k = "comma" /\ JsonScan(raw, i + 1, depth, "key")
           \/ x.k = "rb" /\ JsonScan(raw, i + 1, depth - 1, IF depth = 1 THEN "end" ELSE "after")
      [] OTHER -> FALSE

JsonParses(raw) == raw # <<>> /\ JsonScan(raw, 1, 0, "start")

\* the token holding the value of member key of the object opened at lo
\* (0 if the object has no such member; the last one wins, as in JSON.parse)
memberValue(o, lo, key) ==
  LET hi == closeAfter(o, lo)
      S == {i \in (lo + 1)..(hi - 2) :
              o[i] = Key(key) /\ o[i + 1] = COLON /\ DepthAt(o, lo, i) = 1}
  IN IF hi = 0 \/ S = {} THEN 0 ELSE (CHOOSE i \in S : \A j \in S : j <= i) + 2

-----------------------------------------------------------------------------
(* Discount extraction of extractPromo.js *)

NoDiscount == [pct |-> NoNum, amt |-> NoNum, cents |-> NoNum, cur |-> NullStr]

\* extractNearestJsonObject: the parsed object, as its tokens (<<>> for null)
extractNearestJsonObject(text, codeIndex) ==
  LET start == openBefore(text, codeIndex)
      close == IF start = 0 THEN 0 ELSE closeAfter(text, start)
      raw == IF start = 0 THEN <<>>
             ELSE IF close # 0 THEN SubSeq(text, start, close)
             ELSE SubSeq(text, start, codeIndex - 1)      \* end stays at codeIndex
  IN IF start = 0 \/ raw = <<>> THEN <<>>
     ELSE IF JsonParses(raw) THEN raw
     ELSE IF JsonParses(unescapeRsc(raw)) THEN unescapeRsc(raw)
     ELSE <<>>

\* the value of a number token: Number("<digits>") and the number itself
NumberOf(x) ==
  IF x.k = "dec" /\ x.n % 100 # 0 THEN Hundredths(x.n)
  ELSE IF x.k = "dec" THEN Num(x.n \div 100)
  ELSE Num(x.n)

\* normPercent on the value at token v of o (v = 0: the member is missing):
\* a number is returned as it is, of a string the first run of digits
normPercent(o, v) ==
  IF v = 0 THEN NoNum
  ELSE IF o[v].k \in {"num", "dec", "pct"} THEN NumberOf(o[v])
  ELSE NoNum                       \* text without a digit, or an object

\* numOrNull on the value at token v of o; the amount members of the bodies
\* considered are numbers
numOrNull(o, v) ==
  IF v = 0 THEN NoNum ELSE IF o[v].k \in {"num", "dec"} THEN NumberOf(o[v]) ELSE NoNum

\* intOrNull: parseInt(String(x), 10)
intOrNull(o, v) ==
  IF v = 0 THEN NoNum
  ELSE IF o[v].k = "num" THEN Num(o[v].n)
  ELSE IF o[v].k = "dec" THEN Num(o[v].n \div 100)
  ELSE NoNum

fieldsOfObject(o, lo) ==
  [pct |-> normPercent(o, memberValue(o, lo, "discountOff")),
   amt |-> numOrNull(o, memberValue(o, lo, "amountOff")),
   cents |-> intOrNull(o, memberValue(o, lo, "amountOffInCents")),
   cur |-> NullStr]

\* the token of the first match of  "<key>"\s*:\s*<value of a kind in ks>  in
\* a text window (0: no match)
firstFieldToken(w, key, ks) ==
  LET S == {i \in 1..(Len(w) - 2) : w[i] = Key(key) /\ w[i + 1] = COLON /\ w[i + 2].k \in ks}
  IN IF S = {} THEN 0 ELSE (CHOOSE i \in S : \A j \in S : i <= j) + 2

\* Number(m[1]) of that match; (\d+) stops at the decimal point
firstFieldMatch(w, key, ks, whole) ==
  LET v == firstFieldToken(w, key, ks)
  IN IF v = 0 THEN NoNum
     ELSE IF whole /\ w[v].k = "dec" THEN Num(w[v].n \div 100)
     ELSE NumberOf(w[v])

\* extractDiscountFieldsFromSnippet on a parsed object
fieldsFromObject(o) ==
  LET p == memberValue(o, 1, "popupPromoCode")
  IN IF p # 0 /\ o[p].k = "lb" THEN fieldsOfObject(o, p) ELSE fieldsOfObject(o, 1)

\* a string fallback whose patterns are shared and sticky: after a call that
\* matched, the next search starts where that match ended and finds nothing
fieldsFromStringSticky(w) ==
  IF unit.fn = "discount" /\ unit.out.pct # NoNum
  THEN NoDiscount
  ELSE [pct |-> firstFieldMatch(w, "discountOff", {"pct"}, FALSE),
        amt |-> firstFieldMatch(w, "amountOff", {"num", "dec"}, FALSE),
        cents |-> firstFieldMatch(w, "amountOffInCents", {"num", "dec"}, TRUE),
        cur |-> NullStr]

\* extractDiscountFieldsFromSnippet on a string window
fieldsFromString(w) ==
  [pct |-> firstFieldMatch(w, "discountOff", {"pct"}, FALSE),
   amt |-> firstFieldMatch(w, "amountOff", {"num", "dec"}, FALSE),
   cents |-> firstFieldMatch(w, "amountOffInCents", {"num", "dec"}, TRUE),
   cur |-> NullStr]

WindowPad == 1200

sliceAround(text, idx, pad) ==
  SubSeq(text, Max(1, idx - pad), Min(Len(text), idx + pad - 1))

\* the discount the handler attaches to an accepted code
discountNearCode(body, code) ==
  LET codeIdx == indexOfCode(body, code)
      obj == extractNearestJsonObject(body, codeIdx)
  IN IF codeIdx = 0 THEN NoDiscount
     ELSE IF obj # <<>> THEN fieldsFromObject(obj)
     ELSE fieldsFromString(sliceAround(body, codeIdx, WindowPad))

-----------------------------------------------------------------------------
(* Discount bundle extraction of extractPromoWithDiscounts.js *)

MaxSpan == 4000
FallbackPad == 600

\* sliceEnclosingJsonObject: the balanced slice around the index (<<>> for null)
sliceEnclosingJsonObject(text, codeIndex) ==
  LET start == Max(1, codeIndex - MaxSpan)
      window == SubSeq(text, start, Min(Len(text), codeIndex + MaxSpan - 1))
      left == openBefore(window, codeIndex - start + 1)
      close == IF left = 0 THEN 0 ELSE closeAfter(window, left)
  IN IF left = 0 \/ close = 0 THEN <<>> ELSE SubSeq(window, left, close)

\* typeof node.code === 'string' && /^promo-[a-z0-9-]{6,}$/i.test(node.code)
hasCodeMember(o, lo) ==
  LET v == memberValue(o, lo, "code")
  IN v # 0 /\ o[v].k = "str" /\ IsCodeShape(o[v].t)

\* dfs of extractBundleFromBody: the object the bundle is read from (0: none)
RECURSIVE dfs(_, _)
dfs(o, lo) ==
  IF hasCodeMember(o, lo) THEN lo
  ELSE LET p == memberValue(o, lo, "popupPromoCode")
       IN IF p # 0 /\ o[p].k = "lb" /\ hasCodeMember(o, p) THEN p
          ELSE LET kids == {i \in (lo + 1)..(closeAfter(o, lo) - 1) :
                              o[i].k = "lb" /\ DepthAt(o, lo, i) = 2}
                   found == {i \in kids : dfs(o, i) # 0}
               IN IF found = {} THEN 0
                  ELSE dfs(o, CHOOSE i \in found : \A j \in found : i <= j)

\* obj.amountOff * 100 in double arithmetic for amountOff = h/100: the product
\* is h except where rounding leaves it an ulp away (0.07 * 100 is
\* 7.000000000000001)
InexactHundredths == {7, 14, 28, 29, 55, 56, 57, 58}
TimesHundred(h) == IF h \in InexactHundredths THEN NearNum(h) ELSE Num(h)

\* normalizeDiscountFromObject on the object opened at lo
normalizeDiscountFromObject(o, lo) ==
  LET a == memberValue(o, lo, "amountOff")
      q == memberValue(o, lo, "percentOff")
      d == memberValue(o, lo, "discountOff")
      m == memberValue(o, lo, "amount")
      c == memberValue(o, lo, "currency")
      p1 == IF a # 0 /\ o[a].k = "num" /\ o[a].n > 0 /\ o[a].n <= 1
            THEN Num(o[a].n * 100)
            ELSE IF a # 0 /\ o[a].k = "dec" /\ o[a].n > 0 /\ o[a].n <= 100
            THEN TimesHundred(o[a].n)
            ELSE NoNum
      p2 == IF q # 0 /\ o[q].k \in {"num", "dec"} THEN NumberOf(o[q]) ELSE p1
      p3 == IF d # 0 /\ o[d].k = "pct" THEN Num(o[d].n) ELSE p2
      money == m # 0 /\ c # 0 /\ o[m].k \in {"num", "dec"} /\ o[m].n # 0
                 /\ o[c].k = "str" /\ o[c].t # NullStr
  IN [pct |-> p3,
      amt |-> IF money THEN NumberOf(o[m]) ELSE NoNum,
      cents |-> NoNum,
      cur |-> IF money THEN o[c].t ELSE NullStr]

\* extractBundleFromBody, then the handler's test bundle.code === cand.code
bundleFor(body, code, index) ==
  LET slice == sliceEnclosingJsonObject(body, index)
      node == IF slice # <<>> /\ JsonParses(slice) THEN dfs(slice, 1) ELSE 0
  IN IF node # 0 /\ toLowerCase(slice[memberValue(slice, node, "code")].t) = code
     THEN normalizeDiscountFromObject(slice, node) ELSE NoDiscount

\* the nearby-window fallback: /(\d{1,2}(?:\.\d+)?)\s*%/ on body.slice(i, j)
windowPercent(body, index) ==
  LET w == SubSeq(body, Max(1, index - FallbackPad), Min(Len(body), index + FallbackPad - 1))
      S == {i \in 1..Len(w) : w[i].k = "pct"}
      \* "amountOff"\s*:\s*(0?\.\d+), then parseFloat(frac[1]) * 100
      frac == firstFieldToken(w, "amountOff", {"dec", "dot"})
  IN IF S # {} THEN Num(w[CHOOSE i \in S : \A j \in S : i <= j].n)
     ELSE IF frac # 0 /\ w[frac].n < 100 THEN TimesHundred(w[frac].n)
     ELSE NoNum

\* a bundle without a percentage and without an amount takes the percentage
\* of the nearby window
bundleOrWindow(b, body, index) ==
  IF b.pct = NoNum /\ b.amt = NoNum
  THEN [b EXCEPT !.pct = windowPercent(body, index)]
  ELSE b

\* the discount the requestfinished handler attaches to a candidate
\* (index 0: the candidate has no anchor in the body)
bundleNearIndex(body, code, index) ==
  bundleOrWindow(IF index >= 1 THEN bundleFor(body, code, index) ELSE NoDiscount, body, index)

\* the match positions of the structured pattern
\* "popupPromoCode"\s*:\s*\{[^}]*"code"\s*:\s*"(promo-...)"
StructuredMatches(body) ==
  {i \in 1..Len(body) :
     /\ i + 5 <= Len(body)
     /\ body[i] = Key("popupPromoCode") /\ body[i + 1] = COLON /\ body[i + 2].k = "lb"
     /\ \E j \in (i + 3)..(Len(body) - 2) :
          /\ body[j] = Key("code") /\ body[j + 1] = COLON
          /\ body[j + 2].k = "str" /\ IsCodeShape(body[j + 2].t)
          /\ \A m \in (i + 3)..j : body[m].k # "rb"}

structuredCode(body, i) ==
  LET J == {j \in (i + 3)..(Len(body) - 2) :
              /\ body[j] = Key("code") /\ body[j + 1] = COLON
              /\ body[j + 2].k = "str" /\ IsCodeShape(body[j + 2].t)
              /\ \A m \in (i + 3)..j : body[m].k # "rb"}
  IN toLowerCase(body[(CHOOSE j \in J : \A m \in J : m <= j) + 2].t)

RECURSIVE SortedSeq(_)
SortedSeq(S) ==
  IF S = {} THEN <<>>
  ELSE LET m == CHOOSE i \in S : \A j \in S : i <= j
       IN <<m>> \o SortedSeq(S \ {m})

\* findCodesWithIndex plus the promoCode URL parameter: { code, index } in
\* pattern order (a match repeated by a later pattern at the same index adds
\* an identical candidate and is listed once)
candidatesWithIndex(body, u) ==
  LET st == SortedSeq(StructuredMatches(body))
      cp == SortedSeq(CodePositions(body))
      quoted == SelectSeq(cp, LAMBDA i : body[i].k = "str")
  IN [k \in 1..Len(st) |-> [code |-> structuredCode(body, st[k]), index |-> st[k]]]
     \o [k \in 1..Len(quoted) |->
           [code |-> toLowerCase(body[quoted[k]].t), index |-> quoted[k]]]
     \o [k \in 1..Len(cp) |-> [code |-> toLowerCase(body[cp[k]].t), index |-> cp[k]]]
     \o (IF urlParam(u) = {} THEN <<>>
         ELSE <<[code |-> toLowerCase(u.promoCode),
                 index |-> indexOfCode(body, u.promoCode)]>>)

-----------------------------------------------------------------------------
(* Candidates pushed by one handler call *)

RECURSIVE Dedup(_, _)
Dedup(xs, acc) ==
  IF xs = <<>> THEN acc
  ELSE IF \E i \in 1..Len(acc) : acc[i] = Head(xs) THEN Dedup(Tail(xs), acc)
  ELSE Dedup(Tail(xs), Append(acc, Head(xs)))

\* the Set `codes` of the response handler, in insertion order
codesInOrder(body, u) ==
  LET st == SortedSeq(StructuredMatches(body))
      cp == SortedSeq(CodePositions(body))
      quoted == SelectSeq(cp, LAMBDA i : body[i].k = "str")
  IN Dedup([k \in 1..Len(st) |-> structuredCode(body, st[k])]
           \o [k \in 1..Len(quoted) |-> toLowerCase(body[quoted[k]].t)]
           \o [k \in 1..Len(cp) |-> toLowerCase(body[cp[k]].t)]
           \o (IF urlParam(u) = {} THEN <<>> ELSE <<toLowerCase(u.promoCode)>>),
           <<>>)

Hit(code, src, ct, ts, route, d) ==
  [code |-> code, src |-> src, ct |-> ct, ts |-> ts, route |-> route,
   pct |-> d.pct, amt |-> d.amt, cents |-> d.cents, cur |-> d.cur]

\* the response handler of extractPromo.js passes its filters on this response
handlerScans(r, only) ==
  /\ ~IsStaticCt(r.ct)
  /\ r.body # <<>>
  /\ precheck(r.body, UrlString(r.url))
  /\ only = NullStr \/ hasOnlyThisCode(r.body, UrlString(r.url), only)

\* the hits the response handler of extractPromo.js pushes for response id
responseHits(id, r, c, only, ts) ==
  IF ~handlerScans(r, only) THEN <<>>
  ELSE LET codes == codesInOrder(r.body, r.url)
           ok == SelectSeq(codes, LAMBDA code : acceptResponse(c, r.url, r.body, r.ct))
       IN [k \in 1..Len(ok) |->
             Hit(ok[k], id, r.ct, ts, c.route, discountNearCode(r.body, ok[k]))]

\* the requestfinished handler of extractPromoWithDiscounts.js scans this response
\* (SKIP_EXT on the URL, the content type, the precheck with the i flag)
requestScans(r) ==
  /\ ~IsStaticCt(r.ct)
  /\ ~endsWith(UrlString(r.url), <<".", "p", "n", "g">>)
  /\ r.body # <<>>
  /\ \/ \E i \in 1..Len(r.body) :
           r.body[i].k \in {"str", "bare", "estr"}
             /\ includes(toLowerCase(r.body[i].t), PromoDash)
     \/ BodyHas(r.body, TokHasPopupWord)
     \/ includes(toLowerCase(UrlString(r.url)), toLowerCase(PromoCodeEq))

\* the hits the requestfinished handler pushes for response id
requestHits(id, r, c, ts) ==
  IF ~requestScans(r) THEN <<>>
  ELSE LET cands == candidatesWithIndex(r.body, r.url)
           ok == SelectSeq(cands,
                   LAMBDA cand : acceptRequest(c, r.url, r.body, r.ct, r.post))
       IN [k \in 1..Len(ok) |->
             Hit(ok[k].code, id, r.ct, ts, c.route,
                 bundleNearIndex(r.body, ok[k].code, ok[k].index))]

handlerHits(v, id, r, c, only, ts) ==
  IF v = "response" THEN responseHits(id, r, c, only, ts)
  ELSE requestHits(id, r, c, ts)

\* the response handler caches the response for the rescue
handlerCaches(r, only) ==
  handlerScans(r, only) /\ cacheable(r.body, UrlString(r.url))

-----------------------------------------------------------------------------
(* utils/discountParse.js: extractDiscountNearCode *)

NearPad == 800

\* the digits a pattern \d{1,k} takes from the front of n (limit = 10^k)
RECURSIVE LeadingDigits(_, _)
LeadingDigits(n, limit) == IF n < limit THEN n ELSE LeadingDigits(n \div 10, limit)

\* the first token after "<one of keys>": that passes ok (0: none)
firstValueToken(w, keys, ok(_)) ==
  LET S == {i \in 1..(Len(w) - 2) :
              w[i].k = "key" /\ w[i].s \in keys /\ w[i + 1] = COLON /\ ok(w[i + 2])}
  IN IF S = {} THEN 0 ELSE (CHOOSE i \in S : \A j \in S : i <= j) + 2

\* parseFloat of (\d{1,2}(?:\.\d+)?) matched at a number: two leading digits,
\* and the decimals where the point follows them
TwoDigitNumber(x) ==
  IF x.k = "dec" /\ x.n \div 100 < 100 THEN NumberOf(x)
  ELSE IF x.k = "dec" THEN Num(LeadingDigits(x.n \div 100, 100))
  ELSE Num(LeadingDigits(x.n, 100))

extractDiscountNearCode(body, code) ==
  LET text == unescapeRsc(body)
      idx == IF code = NullStr THEN 0 ELSE indexOfCode(text, code)
      win == SubSeq(text, Max(1, idx - NearPad), Min(Len(text), idx + NearPad - 1))
      PctKeys == {"discountPercent", "discountPercentage"}
      pctStr == firstValueToken(win, {"discountOff"}, LAMBDA x : x.k = "pct" /\ x.n < 100)
      pctNum == firstValueToken(win, PctKeys, LAMBDA x : x.k \in {"num", "dec"})
      pctDec == firstValueToken(win, PctKeys, LAMBDA x : x.k = "dot")
      amtOff == firstValueToken(win, {"amountOff"}, LAMBDA x : x.k \in {"num", "dec"})
      amtCents == firstValueToken(win, {"amountOffInCents"},
                    LAMBDA x : (x.k = "num" /\ x.n >= 10) \/ (x.k = "dec" /\ x.n \div 100 >= 10))
  IN IF idx = 0 THEN NoDiscount
     ELSE [pct |-> IF pctStr # 0 THEN Num(win[pctStr].n)
                   ELSE IF pctNum # 0 THEN TwoDigitNumber(win[pctNum])
                   ELSE IF pctDec # 0 THEN Num(win[pctDec].n)  \* round(x * 100 * 100) / 100
                   ELSE NoNum,
           amt |-> IF amtOff # 0 THEN NumberOf(win[amtOff]) ELSE NoNum,
           cents |-> IF amtCents = 0 THEN NoNum
                     ELSE IF win[amtCents].k = "dec"
                     THEN Num(LeadingDigits(win[amtCents].n \div 100, 10000000))
                     ELSE Num(LeadingDigits(win[amtCents].n, 10000000)),
           cur |-> NullStr]

-----------------------------------------------------------------------------
(* Ranking and de-duplication *)

DiscountBonus == 100            \* extractPromo.js
BundleBonus == 1000             \* extractPromoWithDiscounts.js
JsonBonus == 40
RouteBonus == 30
TsDivisor == 1000000

hasDiscount(v, h) ==
  IF v = "response" THEN h.pct # NoNum \/ h.amt # NoNum \/ h.cents # NoNum
  ELSE h.pct # NoNum \/ h.amt # NoNum

\* a score whose recency term is x.ts / 1e3
scoreCoarse(v, cr, h) ==
  ( (IF hasDiscount(v, h) THEN (IF v = "response" THEN DiscountBonus ELSE BundleBonus) ELSE 0)
    + (IF IsJsonOrRsc(h.ct) THEN JsonBonus ELSE 0)
    + (IF h.route # NullStr /\ cr # NullStr /\ toLowerCase(h.route) = toLowerCase(cr)
       THEN RouteBonus ELSE 0) ) * 1000
  + h.ts

\* the score of the sort comparator, times 1e6 (x.ts / 1e6 is the last term)
score(v, cr, h) ==
  ( (IF hasDiscount(v, h) THEN (IF v = "response" THEN DiscountBonus ELSE BundleBonus) ELSE 0)
    + (IF IsJsonOrRsc(h.ct) THEN JsonBonus ELSE 0)
    + (IF h.route # NullStr /\ cr # NullStr /\ toLowerCase(h.route) = toLowerCase(cr)
       THEN RouteBonus ELSE 0) ) * TsDivisor
  + h.ts

\* whether hit h replaces the hit prev kept so far for the same code
replaces(v, cr, h, prev) ==
  IF v = "response" THEN h.ts > prev.ts
  ELSE score(v, cr, h) > score(v, cr, prev)

\* the Map byCode, as the sequence of its values in key insertion order
RECURSIVE byCode(_, _, _, _)
byCode(v, cr, hs, acc) ==
  IF hs = <<>> THEN acc
  ELSE LET h == Head(hs)
           next == IF \E i \in 1..Len(acc) : acc[i].code = h.code
                   THEN [i \in 1..Len(acc) |->
                           IF acc[i].code = h.code /\ replaces(v, cr, h, acc[i])
                           THEN h ELSE acc[i]]
                   ELSE Append(acc, h)
       IN byCode(v, cr, Tail(hs), next)

\* ranked[0] of the stable sort by descending score
best(v, cr, hs) ==
  LET kept == byCode(v, cr, hs, <<>>)
      top == {i \in 1..Len(kept) :
                \A j \in 1..Len(kept) : score(v, cr, kept[j]) <= score(v, cr, kept[i])}
  IN kept[CHOOSE i \in top : \A j \in top : i <= j]

Result(code, src, ct, d) ==
  [code |-> code, src |-> src, ct |-> ct,
   pct |-> d.pct, amt |-> d.amt, cents |-> d.cents, cur |-> d.cur]

-----------------------------------------------------------------------------
(* One page visit: the runner's navigation, then extractPopupPromoFromNetwork *)

MaxResponses == 2                \* responses produced by one page visit

WaitAfterGoto == 1200
WaitAfterReload == 1500
BundleWaitAfterGoto == 900
BundleWaitAfterReload == 700
NavTimeout == 45000
LoadStateTimeout == 45000
RunnerTimeoutMs == 15000

PageUrl == Url(HostWhop, <<RouteA>>, NullStr)

\* the ids the page's inline scripts expose
PageInline == [productId |-> ProductP, companyId |-> NullStr]

\* the inline data page.content() can return
HtmlPages == [bare |-> BodyNoPromo, popup |-> BodyPopupA]

\* new URL(u) succeeds: an https URL needs a host
UrlParses(u) == u.host # NullStr

\* routeFromUrl: the first non-empty segment of the path; null where there
\* is none and where new URL(u) throws
routeFromUrl(u) ==
  LET segs == SelectSeq(u.path, LAMBDA seg : seg # <<>>)
  IN IF ~UrlParses(u) \/ segs = <<>> THEN NullStr ELSE segs[1]

\* a flow that subscribes the handler only after its first navigation
FlowLateAttach(v) ==
  IF v = "response"
  THEN <<"context", "goto", "on", "reload", "idle", "off", "finish">>
  ELSE <<"context", "goto", "on", "reload", "idle", "off">>

\* the steps of extractPopupPromoFromNetwork, in program order
Flow(v) ==
  IF v = "response"
  THEN <<"context", "on", "goto", "reload", "idle", "off", "finish">>
  ELSE <<"context", "on", "goto", "reload", "idle", "off">>

StepAfter(v, p) ==
  LET f == Flow(v)
      i == CHOOSE k \in 1..Len(f) : f[k] = p
  IN IF i = Len(f) THEN "done" ELSE f[i + 1]

\* a resolver that takes the route from the URL alone
getPageContextNoFallback(u, fallbackRoute, inline) ==
  [route |-> routeFromUrl(u),
   productId |-> inline.productId,
   companyId |-> inline.companyId]

\* getPageContext: the route of the URL, else the fallback route; the ids the
\* first inline script that has one yields
getPageContext(u, fallbackRoute, inline) ==
  [route |-> IF routeFromUrl(u) # NullStr THEN routeFromUrl(u) ELSE fallbackRoute,
   productId |-> inline.productId,
   companyId |-> inline.companyId]

\* no helper has been called on its own
NoCall == [fn |-> "none", in |-> <<>>, out |-> <<>>, log |-> <<>>]

\* the two extractors; the options a caller passes; the identities a visit has
Variants == {"response", "requestfinished"}
CurrentRoutes == {NullStr, RouteA}
OnlyCodes == {NullStr, CodeA, CodeB}
Contexts == {getPageContext(PageUrl, cr, PageInline) : cr \in CurrentRoutes}

Init ==
  /\ variant \in Variants
  /\ opts \in [currentRoute : CurrentRoutes,
               onlyThisCode : OnlyCodes,
               timeoutMs : {RunnerTimeoutMs}]
  /\ variant = "requestfinished" => opts.onlyThisCode = NullStr
  /\ pageUrl = PageUrl
  /\ ctx = [route |-> NullStr, productId |-> NullStr, companyId |-> NullStr]
  /\ pc = "runner_goto"
  /\ attached = FALSE
  /\ pending = {}
  /\ hits = <<>>
  /\ responseCache = <<>>
  /\ now = 0
  /\ elapsed = 0
  /\ seen = {}
  /\ missed = {}
  /\ trace = <<>>
  /\ usedHits = <<>>
  /\ result = <<>>
  /\ outcome = "running"
  /\ batch = <<>>
  /\ unit = NoCall
  /\ pool = <<>>
  /\ scrape = <<>>
  /\ disc = <<>>
  /\ legacy = <<>>
  /\ job = <<>>

\* the value the call returns, computed from the hits pushed so far
\* (html: the page content of the HTML fallback, <<>> where there is none)
htmlHits(c, u, html, ts) ==
  IF html = <<>> \/ ~(BodyHas(html, TokHasPromoDash) \/ BodyHas(html, TokHasPopupWord))
  THEN <<>>
  ELSE LET cp == SortedSeq(CodePositions(html))
           codes == Dedup([k \in 1..Len(cp) |-> toLowerCase(html[cp[k]].t)], <<>>)
           ok == SelectSeq(codes, LAMBDA code : acceptResponse(c, u, html, "text/html"))
       IN [k \in 1..Len(ok) |->
             Hit(ok[k], "html", "text/html", ts, c.route, discountNearCode(html, ok[k]))]

\* rescue: the first cached response that holds onlyThisCode with a discount
RECURSIVE rescue(_, _)
rescue(cache, only) ==
  IF cache = <<>> THEN <<>>
  ELSE LET r == Responses[Head(cache)]
           d == discountNearCode(r.body, only)
           truthy(x) == x # NoNum /\ x[1] # 0
       IN IF indexOfCode(r.body, only) # 0
             /\ (truthy(d.pct) \/ truthy(d.amt) \/ truthy(d.cents))
          THEN <<Result(only, Head(cache), r.ct, d)>>
          ELSE rescue(Tail(cache), only)

\* a ranking without the guard for an empty candidate set: the result record
\* is built from a best hit that is not there
returnedUnguarded(v, cr, only, hs, cache) ==
  IF hs = <<>>
  THEN <<Result(NullStr, "html", "", NoDiscount)>>
  ELSE LET b == best(v, cr, hs)
       IN <<Result(b.code, b.src, b.ct,
                   [pct |-> b.pct, amt |-> b.amt, cents |-> b.cents, cur |-> b.cur])>>

returned(v, cr, only, hs, cache) ==
  IF hs = <<>>
  THEN (IF v = "response" /\ only # NullStr THEN rescue(cache, only) ELSE <<>>)
  ELSE LET b == best(v, cr, hs)
       IN <<Result(b.code, b.src, b.ct,
                   [pct |-> b.pct, amt |-> b.amt, cents |-> b.cents, cur |-> b.cur])>>

\* the handler's hits for each response of the visit, before the timestamp
HandlerHits ==
  [v \in Variants |-> [c \in Contexts |-> [only \in OnlyCodes |-> [id \in RespIds |->
     handlerHits(v, id, Responses[id], c, only, 0)]]]]

HandlerCaches ==
  [only \in OnlyCodes |-> [id \in RespIds |-> handlerCaches(Responses[id], only)]]

\* the hits of the HTML fallback for each content the page can have
HtmlHits ==
  [c \in Contexts |-> [page \in DOMAIN HtmlPages |->
     htmlHits(c, PageUrl, HtmlPages[page], 0)]]

\* ts: Date.now() when the hit is pushed
Stamp(hs, ts) == [k \in 1..Len(hs) |-> [hs[k] EXCEPT !.ts = ts]]

\* the runner navigates to the product page, then calls the extractor
RunnerGoto ==
  /\ pc = "runner_goto"
  /\ pc' = "context"
  /\ trace' = Append(trace, "runner_goto")
  /\ UNCHANGED <<variant, opts, pageUrl, ctx, attached, pending, hits, responseCache,
                 now, elapsed, seen, missed, usedHits, result, outcome, batch, unit, pvars>>

\* an awaited call of the extractor rejects: the call throws from where it stands
Throws ==
  /\ pc' = "threw"
  /\ outcome' = "threw"
  /\ UNCHANGED <<attached, usedHits, result>>

\* const ctx = await getPageContext(page, currentRoute); a rejection of its
\* page.evaluate leaves the extractor as an exception
GetPageContext ==
  /\ pc = "context"
  /\ \/ /\ ctx' = getPageContext(pageUrl, opts.currentRoute, PageInline)
        /\ pc' = StepAfter(variant, "context")
        /\ UNCHANGED <<attached, usedHits, result, outcome>>
     \/ /\ Throws
        /\ UNCHANGED ctx
  /\ UNCHANGED <<variant, opts, pageUrl, pending, hits, responseCache,
                 now, elapsed, seen, missed, trace, batch, unit, pvars>>

\* page.on('response' | 'requestfinished', handler)
On ==
  /\ pc = "on"
  /\ attached' = TRUE
  /\ pc' = StepAfter(variant, "on")
  /\ trace' = Append(trace, "on")
  /\ UNCHANGED <<variant, opts, pageUrl, ctx, pending, hits, responseCache,
                 now, elapsed, seen, missed, usedHits, result, outcome, batch, unit, pvars>>

WaitAfter(v, nav) ==
  IF nav = "goto" THEN (IF v = "response" THEN WaitAfterGoto ELSE BundleWaitAfterGoto)
  ELSE (IF v = "response" THEN WaitAfterReload ELSE BundleWaitAfterReload)

\* await page.goto(await page.url(), ...); await page.waitForTimeout(...)
Goto ==
  /\ pc = "goto"
  /\ trace' = Append(trace, "goto")
  /\ \/ /\ pc' = StepAfter(variant, "goto")
        /\ elapsed' = elapsed + WaitAfter(variant, "goto")
        /\ UNCHANGED <<attached, usedHits, result, outcome>>
     \/ /\ Throws
        /\ elapsed' = elapsed + NavTimeout
  /\ UNCHANGED <<variant, opts, pageUrl, ctx, pending, hits, responseCache,
                 now, seen, missed, batch, unit, pvars>>

\* await page.reload(...)
Reload ==
  /\ pc = "reload"
  /\ trace' = Append(trace, "reload")
  /\ \/ /\ pc' = StepAfter(variant, "reload")
        /\ UNCHANGED <<elapsed, attached, usedHits, result, outcome>>
     \/ /\ Throws
        /\ elapsed' = elapsed + NavTimeout
  /\ UNCHANGED <<variant, opts, pageUrl, ctx, pending, hits, responseCache,
                 now, seen, missed, batch, unit, pvars>>

\* await page.waitForLoadState('networkidle').catch(()=>{}): the network goes
\* idle, or it never does and the wait times out, which is swallowed; then
\* await page.waitForTimeout(...)
Idle ==
  /\ pc = "idle"
  /\ \/ /\ elapsed' = elapsed + WaitAfter(variant, "reload")
        /\ UNCHANGED trace
     \/ /\ elapsed' = elapsed + LoadStateTimeout + WaitAfter(variant, "reload")
        /\ trace' = Append(trace, "idle_timeout")
  /\ pc' = StepAfter(variant, "idle")
  /\ UNCHANGED <<variant, opts, pageUrl, ctx, attached, pending, hits, responseCache,
                 now, seen, missed, usedHits, result, outcome, batch, unit, pvars>>

\* page.off(...); in extractPromoWithDiscounts.js the result is computed in the
\* same turn, in extractPromo.js the call next awaits page.content()
Off ==
  /\ pc = "off"
  /\ attached' = FALSE
  /\ trace' = Append(trace, "off")
  /\ pc' = StepAfter(variant, "off")
  /\ IF StepAfter(variant, "off") = "done"
     THEN /\ usedHits' = hits
          /\ result' = returned(variant, opts.currentRoute, opts.onlyThisCode, hits, responseCache)
          /\ outcome' = "returned"
     ELSE UNCHANGED <<usedHits, result, outcome>>
  /\ UNCHANGED <<variant, opts, pageUrl, ctx, pending, hits, responseCache,
                 now, elapsed, seen, missed, batch, unit, pvars>>

\* page.content() resolves: HTML fallback, then rescue or ranking, in one turn
\* (the trace notes which content the page had)
Finish ==
  /\ pc = "finish"
  /\ \E page \in DOMAIN HtmlPages, tick \in {0, 1} :
       LET all == hits \o Stamp(HtmlHits[ctx][page], now + tick)
       IN /\ hits' = all
          /\ usedHits' = all
          /\ now' = now + tick
          /\ result' = returned(variant, opts.currentRoute, opts.onlyThisCode, all, responseCache)
          /\ trace' = Append(trace, page)
  /\ outcome' = "returned"
  /\ pc' = "done"
  /\ UNCHANGED <<variant, opts, pageUrl, ctx, attached, pending, responseCache,
                 elapsed, seen, missed, batch, unit, pvars>>

\* the phase of the visit a response arrives in
Phase ==
  IF \A i \in 1..Len(trace) : trace[i] # "goto" THEN "early"
  ELSE IF \E i \in 1..Len(trace) : trace[i] = "off" THEN "late"
  ELSE "capture"

\* the page receives a response: the handler, if subscribed, is called with it
\* and suspends at its await of the body
Deliver(id) ==
  /\ trace # <<>>
  /\ outcome = "running"
  /\ id \notin seen
  /\ id \notin {m.id : m \in missed}
  /\ Cardinality(seen) + Cardinality(missed) < MaxResponses
  /\ IF attached
     THEN /\ seen' = seen \cup {id}
          /\ pending' = IF IsStaticCt(Responses[id].ct) THEN pending ELSE pending \cup {id}
          /\ UNCHANGED missed
     ELSE /\ missed' = missed \cup {[id |-> id, phase |-> Phase]}
          /\ UNCHANGED <<seen, pending>>
  /\ UNCHANGED <<variant, opts, pageUrl, ctx, pc, attached, hits, responseCache,
                 now, elapsed, trace, usedHits, result, outcome, batch, unit, pvars>>

\* the body of a suspended handler call arrives: the rest of the handler runs
BodyRead(id) ==
  /\ id \in pending
  /\ outcome = "running"
  /\ pending' = pending \ {id}
  /\ \E tick \in {0, 1} :
       /\ now' = now + tick
       /\ hits' = hits \o Stamp(HandlerHits[variant][ctx][opts.onlyThisCode][id], now + tick)
  /\ responseCache' =
       IF variant = "response" /\ HandlerCaches[opts.onlyThisCode][id]
       THEN Append(responseCache, id) ELSE responseCache
  /\ UNCHANGED <<variant, opts, pageUrl, ctx, pc, attached, elapsed, seen, missed,
                 trace, usedHits, result, outcome, batch, unit, pvars>>

Next ==
  \/ RunnerGoto
  \/ GetPageContext
  \/ On
  \/ Goto
  \/ Reload
  \/ Idle
  \/ Off
  \/ Finish
  \/ \E id \in RespIds : Deliver(id)
  \/ \E id \in RespIds : BodyRead(id)

Spec == Init /\ [][Next]_vars

-----------------------------------------------------------------------------
(* Phase B: extractAll of phaseB_extract.js, from the first dispatch on *)

MaxUrls == 2                     \* URLs left to process in the queue
Concurrency == 2                 \* extractAll({ concurrency = 2 })

\* the values WHOP_CONCURRENCY is given
Concurrencies == 1..Concurrency

BatchUrls == 1..MaxUrls

\* what extractPopupPromoFromNetwork hands the worker: null or a result
WorkerHits ==
  {<<>>,
   <<Result(CodeA, "doc", "text/html", NoDiscount)>>,
   <<Result(CodeA, "doc", "application/json",
            [pct |-> Num(20), amt |-> Num(5), cents |-> NoNum, cur |-> NullStr])>>}

\* hit?.<name> on the value the extractor returns: null, or an object with
\* the keys code, type, sourceUrl, discountPercent, amountOff and
\* amountOffInCents; any other property is undefined
prop(hit, name) ==
  IF hit = <<>> THEN <<>>
  ELSE CASE name = "code" -> hit[1].code
         [] name = "type" -> hit[1].ct
         [] name = "sourceUrl" -> hit[1].src
         [] name = "discountPercent" -> hit[1].pct
         [] name = "amountOff" -> hit[1].amt
         [] name = "amountOffInCents" -> hit[1].cents
         [] OTHER -> <<>>

\* x || null, for a string or a number
orNull(x) == IF x = <<>> \/ x = Num(0) THEN <<>> ELSE x

\* the visit record of the worker
VisitRecord(url, hit) ==
  [url |-> url,
   found |-> orNull(prop(hit, "code")) # <<>>
               \/ orNull(prop(hit, "amountOff")) # <<>>
               \/ orNull(prop(hit, "discountOff")) # <<>>,
   code |-> orNull(prop(hit, "code")),
   amountOff |-> orNull(prop(hit, "amountOff")),
   discountOff |-> orNull(prop(hit, "discountOff")),
   promoId |-> orNull(prop(hit, "promoId")),
   type |-> IF hit = <<>> THEN <<>> ELSE prop(hit, "type"),
   sourceUrl |-> orNull(prop(hit, "url"))]

ErrorRecord(url) == [url |-> url, error |-> TRUE]

\* data/queue.jsonl: phase A appends a URL once
Queue == [i \in BatchUrls |-> i]

MaxRuns == 2                     \* runs of the phase, restarts included

\* loadSet: the URLs of the lines of a log
loadSet(lines) == {lines[i].url : i \in 1..Len(lines)}

\* a list built from the visited log alone
buildToProcessVisitedOnly(queue, vis, err) ==
  SelectSeq(queue, LAMBDA u : u \notin loadSet(vis))

\* extractAll: the URLs of the queue with no line in either log
buildToProcess(queue, vis, err) ==
  SelectSeq(queue, LAMBDA u : u \notin loadSet(vis) /\ u \notin loadSet(err))

\* extractAll up to processQueue, on the logs as the run finds them; with
\* nothing to process it returns at once
StartRun(run, conc, vis, err) ==
  LET tp == buildToProcess(Queue, vis, err)
      listed == {tp[i] : i \in 1..Len(tp)}
  IN [concurrency |-> conc,
      toProcess |-> tp,
      queueIndex |-> 0,
      active |-> 0, idx |-> 0, found |-> 0, empty |-> 0, errors |-> 0,
      visited |-> vis,         \* lines of data/visited.jsonl
      errorLog |-> err,        \* lines of data/errors.jsonl
      worker |-> [u \in BatchUrls |-> IF u \in listed THEN "unstarted" ELSE "skipped"],
      hit |-> [u \in BatchUrls |-> <<>>],
                               \* what the extractor returned for the URL in this run
      queue |-> IF tp = <<>> THEN "ended" ELSE "dispatching",
      stopping |-> FALSE,
      shutdown |-> "none",     \* gracefulShutdown: none | waiting | closed
      exited |-> IF tp = <<>> THEN "returned" ELSE "no",
                               \* no | returned | exit0 | unhandledRejection
      run |-> run,
      visStart |-> Len(vis),   \* lines the run found in the logs
      errStart |-> Len(err)]

InitBatch ==
  /\ variant = "response"
  /\ opts = [currentRoute |-> RouteA, onlyThisCode |-> NullStr, timeoutMs |-> RunnerTimeoutMs]
  /\ pageUrl = PageUrl
  /\ ctx = [route |-> NullStr, productId |-> NullStr, companyId |-> NullStr]
  /\ pc = "batch"
  /\ attached = FALSE
  /\ pending = {}
  /\ hits = <<>>
  /\ responseCache = <<>>
  /\ now = 0
  /\ elapsed = 0
  /\ seen = {}
  /\ missed = {}
  /\ trace = <<>>
  /\ usedHits = <<>>
  /\ result = <<>>
  /\ outcome = "running"
  /\ \E conc \in Concurrencies : batch = StartRun(1, conc, <<>>, <<>>)
  /\ unit = NoCall
  /\ pool = <<>>
  /\ scrape = <<>>
  /\ disc = <<>>
  /\ legacy = <<>>
  /\ job = <<>>

\* the process has ended (exit, unhandled rejection, kill, power loss) and
\* the phase is started again on the logs as they are
Restart ==
  /\ batch # <<>>
  /\ batch.run < MaxRuns
  /\ batch' = StartRun(batch.run + 1, batch.concurrency, batch.visited, batch.errorLog)
  /\ UNCHANGED <<evars, unit, pvars>>

Alive == batch # <<>> /\ batch.exited = "no"

\* a dispatch loop that does not look at stopping
DispatchWhileStopping ==
  /\ Alive
  /\ batch.queue = "dispatching"
  /\ batch.queueIndex < Len(batch.toProcess)
  /\ batch.active < batch.concurrency
  /\ LET url == batch.toProcess[batch.queueIndex + 1]
     IN batch' = [batch EXCEPT !.queueIndex = @ + 1,
                               !.active = @ + 1,
                               !.worker[url] = "newPage"]
  /\ UNCHANGED <<evars, unit, pvars>>

\* a dispatch loop that does not wait for a free slot
DispatchUnbounded ==
  /\ Alive
  /\ batch.queue = "dispatching"
  /\ batch.queueIndex < Len(batch.toProcess)
  /\ ~batch.stopping
  /\ LET url == batch.toProcess[batch.queueIndex + 1]
     IN batch' = [batch EXCEPT !.queueIndex = @ + 1,
                               !.active = @ + 1,
                               !.worker[url] = "newPage"]
  /\ UNCHANGED <<evars, unit, pvars>>

\* processQueue: once active < concurrency, const url = toProcess[queueIndex++];
\* worker(url), which runs to its first await: active++; context.newPage()
Dispatch ==
  /\ Alive
  /\ batch.queue = "dispatching"
  /\ batch.queueIndex < Len(batch.toProcess)
  /\ ~batch.stopping
  /\ batch.active < batch.concurrency
  /\ LET url == batch.toProcess[batch.queueIndex + 1]
     IN batch' = [batch EXCEPT !.queueIndex = @ + 1,
                               !.active = @ + 1,
                               !.worker[url] = "newPage"]
  /\ UNCHANGED <<evars, unit, pvars>>

\* the while loop of processQueue ends: the queue is exhausted, or stopping
QueueExhausted ==
  /\ Alive
  /\ batch.queue = "dispatching"
  /\ batch.queueIndex >= Len(batch.toProcess) \/ batch.stopping
  /\ batch' = [batch EXCEPT !.queue = "draining"]
  /\ UNCHANGED <<evars, unit, pvars>>

\* gracefulShutdown up to its wait for the active workers
beginShutdown(b) ==
  IF b.stopping THEN b
  ELSE [b EXCEPT !.stopping = TRUE, !.shutdown = "waiting"]

\* while (active > 0 && !stopping) ends; extractAll calls gracefulShutdown
\* unless stopping
Drained ==
  /\ Alive
  /\ batch.queue = "draining"
  /\ batch.active = 0 \/ batch.stopping
  /\ batch' = beginShutdown([batch EXCEPT !.queue = "ended"])
  /\ UNCHANGED <<evars, unit, pvars>>

\* SIGINT or SIGTERM
Signal ==
  /\ Alive
  /\ ~batch.stopping
  /\ batch' = beginShutdown(batch)
  /\ UNCHANGED <<evars, unit, pvars>>

\* gracefulShutdown once no worker is active: closeSync of both descriptors
\* and the final heartbeat, up to await context.close()
ShutdownClose ==
  /\ Alive
  /\ batch.shutdown = "waiting"
  /\ batch.active = 0
  /\ batch' = [batch EXCEPT !.shutdown = "closed"]
  /\ UNCHANGED <<evars, unit, pvars>>

\* context.close() and browser.close() have settled: process.exit(0)
ShutdownExit ==
  /\ Alive
  /\ batch.shutdown = "closed"
  /\ batch' = [batch EXCEPT !.exited = "exit0"]
  /\ UNCHANGED <<evars, unit, pvars>>

\* const page = await context.newPage(): outside the try of the worker, so a
\* rejection rejects the promise worker(url) returned, which nothing handles;
\* Node ends the process on an unhandled rejection, or only warns (--unhandled-
\* rejections=warn, Node before 15)
NewPage(url) ==
  /\ Alive
  /\ batch.worker[url] = "newPage"
  /\ \/ batch' = [batch EXCEPT !.worker[url] = "goto"]
     \/ batch' = [batch EXCEPT !.worker[url] = "rejected"]
     \/ batch' = [batch EXCEPT !.worker[url] = "rejected",
                               !.exited = "unhandledRejection"]
  /\ UNCHANGED <<evars, unit, pvars>>

\* await page.goto(url, { waitUntil: 'domcontentloaded', timeout: 30000 })
WorkerGoto(url) ==
  /\ Alive
  /\ batch.worker[url] = "goto"
  /\ \/ batch' = [batch EXCEPT !.worker[url] = "extract"]
     \/ batch' = [batch EXCEPT !.worker[url] = "catch"]
  /\ UNCHANGED <<evars, unit, pvars>>

\* const hit = await extractPopupPromoFromNetwork(...); the record; found++ or
\* empty++; fs.writeSync(visFd, ...)
WorkerExtract(url) ==
  /\ Alive
  /\ batch.worker[url] = "extract"
  /\ \/ \E hit \in WorkerHits :
          LET record == VisitRecord(url, hit)
          IN batch' = [batch EXCEPT !.found = IF record.found THEN @ + 1 ELSE @,
                                    !.empty = IF record.found THEN @ ELSE @ + 1,
                                    !.visited = Append(@, record),
                                    !.hit[url] = hit,
                                    !.worker[url] = "finally"]
     \/ batch' = [batch EXCEPT !.worker[url] = "catch"]
  /\ UNCHANGED <<evars, unit, pvars>>

\* catch (error): errors++; fs.writeSync(errFd, ...)
WorkerCatch(url) ==
  /\ Alive
  /\ batch.worker[url] = "catch"
  /\ batch' = [batch EXCEPT !.errors = @ + 1,
                            !.errorLog = Append(@, ErrorRecord(url)),
                            !.worker[url] = "finally"]
  /\ UNCHANGED <<evars, unit, pvars>>

\* finally: page.close(); active--; idx++
WorkerFinally(url) ==
  /\ Alive
  /\ batch.worker[url] = "finally"
  /\ batch' = [batch EXCEPT !.active = @ - 1,
                            !.idx = @ + 1,
                            !.worker[url] = "done"]
  /\ UNCHANGED <<evars, unit, pvars>>

NextBatch ==
  \/ Restart
  \/ Dispatch
  \/ QueueExhausted
  \/ Drained
  \/ Signal
  \/ ShutdownClose
  \/ ShutdownExit
  \/ \E url \in BatchUrls : NewPage(url)
  \/ \E url \in BatchUrls : WorkerGoto(url)
  \/ \E url \in BatchUrls : WorkerExtract(url)
  \/ \E url \in BatchUrls : WorkerCatch(url)
  \/ \E url \in BatchUrls : WorkerFinally(url)

SpecBatch == InitBatch /\ [][NextBatch]_vars

\* the batch run with its scheduling: a timer of processQueue or of
\* gracefulShutdown that is due runs, and every await of a worker settles;
\* signals and restarts come or not
SpecBatchFair ==
  /\ InitBatch
  /\ [][NextBatch]_vars
  /\ WF_vars(Dispatch)
  /\ WF_vars(QueueExhausted)
  /\ WF_vars(Drained)
  /\ WF_vars(ShutdownClose)
  /\ WF_vars(ShutdownExit)
  /\ \A url \in BatchUrls :
       /\ WF_vars(NewPage(url))
       /\ WF_vars(WorkerGoto(url))
       /\ WF_vars(WorkerExtract(url))
       /\ WF_vars(WorkerCatch(url))
       /\ WF_vars(WorkerFinally(url))

-----------------------------------------------------------------------------
(* runPool of scrape-from-whpcodes.js, and the two pools side by side *)

MaxItems == 3                    \* items handed to runPool

\* a resolve on no worker active alone
RECURSIVE tickNoQueueTest(_)
tickNoQueueTest(p) ==
  IF p.active = 0 THEN [p EXCEPT !.resolved = TRUE]
  ELSE IF p.active < p.concurrency /\ p.queue # <<>>
  THEN tickNoQueueTest([p EXCEPT !.queue = Tail(@),
                                 !.active = @ + 1,
                                 !.calls = Append(@, Head(p.queue)),
                                 !.running = @ \cup {Head(p.queue)}])
  ELSE p

\* tick: resolve once nothing is queued or active; else start workers while
\* a slot is free
RECURSIVE tick(_)
tick(p) ==
  IF p.queue = <<>> /\ p.active = 0 THEN [p EXCEPT !.resolved = TRUE]
  ELSE IF p.active < p.concurrency /\ p.queue # <<>>
  THEN tick([p EXCEPT !.queue = Tail(@),
                      !.active = @ + 1,
                      !.calls = Append(@, Head(p.queue)),
                      !.running = @ \cup {Head(p.queue)}])
  ELSE p

\* runPool(items, worker, concurrency) up to the return of its promise: the
\* first tick() has run
StartPool(items, conc) ==
  tick([concurrency |-> conc, queue |-> items, active |-> 0, done |-> 0,
        running |-> {},        \* items whose worker(item) has not settled
        timers |-> 0,          \* setTimeout(tick, 0) callbacks not yet run
        items |-> items,       \* the argument, which runPool leaves alone
        calls |-> <<>>,        \* the items of the calls worker(item), in order
        rejected |-> {},       \* items whose worker(item) rejected
        timed |-> TRUE,        \* finally ends in setTimeout(tick, 0), not in tick()
        resolved |-> FALSE])

InitPool ==
  /\ variant = "response"
  /\ opts = [currentRoute |-> RouteA, onlyThisCode |-> NullStr, timeoutMs |-> RunnerTimeoutMs]
  /\ pageUrl = PageUrl
  /\ ctx = [route |-> NullStr, productId |-> NullStr, companyId |-> NullStr]
  /\ pc = "pool"
  /\ attached = FALSE
  /\ pending = {}
  /\ hits = <<>>
  /\ responseCache = <<>>
  /\ now = 0
  /\ elapsed = 0
  /\ seen = {}
  /\ missed = {}
  /\ trace = <<>>
  /\ usedHits = <<>>
  /\ result = <<>>
  /\ outcome = "running"
  /\ batch = <<>>
  /\ unit = NoCall
  /\ \E conc \in Concurrencies, n \in 0..MaxItems :
       pool = StartPool([i \in 1..n |-> i], conc)
  /\ scrape = <<>>
  /\ disc = <<>>
  /\ legacy = <<>>
  /\ job = <<>>

\* the end of the finally callback: setTimeout(tick, 0) in
\* scrape-from-whpcodes.js, tick() in the earlier copy of the script
afterFinally(p) ==
  IF p.timed THEN [p EXCEPT !.timers = @ + 1] ELSE tick(p)

\* runPool called by the script: CONCURRENCY is parseInt of WHOP_CONCURRENCY,
\* which may be 0
InitRunPool ==
  /\ variant = "response"
  /\ opts = [currentRoute |-> RouteA, onlyThisCode |-> NullStr, timeoutMs |-> RunnerTimeoutMs]
  /\ pageUrl = PageUrl
  /\ ctx = [route |-> NullStr, productId |-> NullStr, companyId |-> NullStr]
  /\ pc = "pool"
  /\ attached = FALSE
  /\ pending = {}
  /\ hits = <<>>
  /\ responseCache = <<>>
  /\ now = 0
  /\ elapsed = 0
  /\ seen = {}
  /\ missed = {}
  /\ trace = <<>>
  /\ usedHits = <<>>
  /\ result = <<>>
  /\ outcome = "running"
  /\ batch = <<>>
  /\ unit = NoCall
  /\ \E conc \in 0..Concurrency, n \in 0..MaxItems, timed \in BOOLEAN :
       pool = [StartPool([i \in 1..n |-> i], conc) EXCEPT !.timed = timed]
  /\ scrape = <<>>
  /\ disc = <<>>
  /\ legacy = <<>>
  /\ job = <<>>

\* worker(item) settles, fulfilled or rejected: .catch(() => {}), then the
\* finally callback: active--; done++; setTimeout(tick, 0)
WorkerSettles(item) ==
  /\ pool # <<>>
  /\ item \in pool.running
  /\ \E rejects \in BOOLEAN :
       pool' = afterFinally([pool EXCEPT !.running = @ \ {item},
                                         !.active = @ - 1,
                                         !.done = @ + 1,
                                         !.rejected = IF rejects THEN @ \cup {item} ELSE @])
  /\ UNCHANGED <<evars, batch, unit, scrape, disc, legacy, job>>

\* a setTimeout(tick, 0) callback runs
Tick ==
  /\ pool # <<>>
  /\ pool.timers > 0
  /\ pool' = tick([pool EXCEPT !.timers = @ - 1])
  /\ UNCHANGED <<evars, batch, unit, scrape, disc, legacy, job>>

NextPool ==
  \/ \E item \in 1..MaxItems : WorkerSettles(item)
  \/ Tick

\* runPool on its own; every call of the worker settles, and a timer that
\* is due runs
SpecRunPool ==
  /\ InitRunPool
  /\ [][NextPool]_vars
  /\ WF_vars(Tick)
  /\ \A item \in 1..MaxItems : WF_vars(WorkerSettles(item))

-----------------------------------------------------------------------------
(* scrapeOne of scrape-from-whpcodes.js *)

MaxArrivals == 3                 \* responses the page receives during one scrapeOne

\* {"popupPromoCode":{"code":"promo-bbbbbb"}}
BodyPopupB ==
  <<LB, Key("popupPromoCode"), COLON, LB, Key("code"), COLON, SVal(CodeB), RB, RB>>

\* the object a popupPromoCode member of the object opened at lo holds, where
\* it has a code, an amountOff or a discountOff (0: none)
popupOf(body, lo) ==
  LET p == memberValue(body, lo, "popupPromoCode")
  IN IF p # 0 /\ body[p].k = "lb"
        /\ (memberValue(body, p, "code") # 0 \/ memberValue(body, p, "amountOff") # 0
              \/ memberValue(body, p, "discountOff") # 0)
     THEN p ELSE 0

\* extractPromoFromBody: the popupPromoCode object of the body, as its code
\* (<<>> for null); the bodies considered hold at most one such object and
\* parse as JSON or not at all
extractPromoFromBody(body) ==
  IF body = <<>> \/ ~BodyHas(body, TokHasPopupWord) \/ ~JsonParses(body) THEN <<>>
  ELSE LET S == {lo \in 1..Len(body) : body[lo].k = "lb" /\ popupOf(body, lo) # 0}
       IN IF S = {} THEN <<>>
          ELSE LET p == popupOf(body, CHOOSE lo \in S : TRUE)
                   c == memberValue(body, p, "code")
               IN <<[code |-> IF c = 0 THEN NullStr ELSE body[c].t]>>

\* the responses a scraped page can receive
ScrapeResponses ==
  [ popupA |-> [ct |-> "application/json", body |-> BodyPopupA],
    popupB |-> [ct |-> "text/x-component", body |-> BodyPopupB],
    image  |-> [ct |-> "image/png", body |-> BodyPopupA],
    empty  |-> [ct |-> "text/html", body |-> BodyNoPromo] ]

\* ct.includes('json') || ct.includes('text')
IsJsonOrText(ct) == ct \in {"application/json", "text/x-component", "text/html", "text/css"}

\* the steps of scrapeOne after context.newPage() and page.on('response')
ScrapeFlow == <<"goto", "reload", "idle", "meta", "close", "return">>

InitScrape ==
  /\ variant = "response"
  /\ opts = [currentRoute |-> NullStr, onlyThisCode |-> NullStr, timeoutMs |-> RunnerTimeoutMs]
  /\ pageUrl = PageUrl
  /\ ctx = [route |-> NullStr, productId |-> NullStr, companyId |-> NullStr]
  /\ pc = "scrape"
  /\ attached = FALSE
  /\ pending = {}
  /\ hits = <<>>
  /\ responseCache = <<>>
  /\ now = 0
  /\ elapsed = 0
  /\ seen = {}
  /\ missed = {}
  /\ trace = <<>>
  /\ usedHits = <<>>
  /\ result = <<>>
  /\ outcome = "running"
  /\ batch = <<>>
  /\ unit = NoCall
  /\ pool = <<>>
  /\ scrape = [step |-> 1,          \* the step of ScrapeFlow about to run
               arrived |-> <<>>,    \* the responses received, in order
               reading |-> {},      \* handler calls awaiting resp.text()
               completed |-> <<>>,  \* the arrivals whose body was read, in order of completion
               lastPromo |-> <<>>,
               outcome |-> "running",
               result |-> <<>>]
  /\ disc = <<>>
  /\ legacy = <<>>
  /\ job = <<>>

ScrapeOpen == scrape # <<>> /\ scrape.outcome = "running"

\* the page receives a response while it is open; the handler runs to its
\* await of resp.text(), or returns at the content-type test
ScrapeResponse(r) ==
  /\ ScrapeOpen
  /\ ScrapeFlow[scrape.step] \in {"goto", "reload", "idle", "meta"}
  /\ Len(scrape.arrived) < MaxArrivals
  /\ scrape' = [scrape EXCEPT
                  !.arrived = Append(@, r),
                  !.reading = IF IsJsonOrText(ScrapeResponses[r].ct)
                              THEN @ \cup {Len(scrape.arrived) + 1} ELSE @]
  /\ UNCHANGED <<evars, batch, unit, pool, disc, legacy, job>>

\* resp.text() of the handler call for arrival i resolves: the rest of the
\* handler runs; or it rejects and the catch swallows it
ScrapeBodyRead(i) ==
  /\ ScrapeOpen
  /\ i \in scrape.reading
  /\ \/ LET promo == extractPromoFromBody(ScrapeResponses[scrape.arrived[i]].body)
        IN scrape' = [scrape EXCEPT
                        !.reading = @ \ {i},
                        !.completed = Append(@, i),
                        !.lastPromo = IF promo # <<>> THEN promo ELSE @]
     \/ scrape' = [scrape EXCEPT !.reading = @ \ {i}]
  /\ UNCHANGED <<evars, batch, unit, pool, disc, legacy, job>>

\* the next step of scrapeOne: goto and reload may throw; the activity and
\* the meta fields are in try blocks; after page.close() the function returns
\* null or the record of lastPromo
ScrapeStep ==
  /\ ScrapeOpen
  /\ \/ /\ ScrapeFlow[scrape.step] \in {"goto", "reload"}
        /\ \/ scrape' = [scrape EXCEPT !.step = @ + 1]
           \/ scrape' = [scrape EXCEPT !.outcome = "threw"]
     \/ /\ ScrapeFlow[scrape.step] \in {"idle", "meta", "close"}
        /\ scrape' = [scrape EXCEPT !.step = @ + 1]
     \/ /\ ScrapeFlow[scrape.step] = "return"
        /\ scrape' = [scrape EXCEPT !.outcome = "returned", !.result = scrape.lastPromo]
  /\ UNCHANGED <<evars, batch, unit, pool, disc, legacy, job>>

NextScrape ==
  \/ \E r \in DOMAIN ScrapeResponses : ScrapeResponse(r)
  \/ \E i \in 1..MaxArrivals : ScrapeBodyRead(i)
  \/ ScrapeStep

SpecScrape == InitScrape /\ [][NextScrape]_vars

-----------------------------------------------------------------------------
(* Phase A: discoverAll of phaseA_discover.js, run after run *)

MaxPages == 3                    \* discoverAll({ maxPages })

\* the product URLs the listing pages link to
DiscUrls == {"whop.com/a", "whop.com/b", "whop.com/c"}

\* what page.$$eval returns for a listing page: the links, each once
LinkLists ==
  {<<>>} \cup {<<u>> : u \in DiscUrls}
    \cup {l \in DiscUrls \X DiscUrls : l[1] # l[2]}

\* a set built from the queue alone
alreadyQueueOnly(queued, done) == queued

\* const already = new Set([...seen, ...done])
alreadySet(queued, done) == queued \cup done

\* discoverAll up to its page loop, on the files as the run finds them
StartDiscovery(run, q, vis) ==
  [run |-> run,
   queueFile |-> q,            \* lines of data/queue.jsonl
   visitedLog |-> vis,         \* the URLs of the lines of data/visited.jsonl
   already |-> alreadySet(loadSet(q), vis),
   n |-> 1,
   lastNonEmptyPage |-> 0,
   skipped |-> {},             \* the links this run did not append
   phase |-> "pages"]          \* pages | ended

\* the append loop over the links of page n
RECURSIVE appendLinks(_, _)
appendLinks(d, links) ==
  IF links = <<>> THEN d
  ELSE LET u == Head(links)
       IN IF u \in d.already
          THEN appendLinks([d EXCEPT !.skipped = @ \cup {u}], Tail(links))
          ELSE appendLinks(
                 [d EXCEPT !.queueFile = Append(@, [url |-> u, fromPage |-> d.n, run |-> d.run,
                                                   logged |-> u \in d.visitedLog]),
                           !.already = @ \cup {u}],
                 Tail(links))

InitDiscover ==
  /\ variant = "response"
  /\ opts = [currentRoute |-> NullStr, onlyThisCode |-> NullStr, timeoutMs |-> RunnerTimeoutMs]
  /\ pageUrl = PageUrl
  /\ ctx = [route |-> NullStr, productId |-> NullStr, companyId |-> NullStr]
  /\ pc = "discover"
  /\ attached = FALSE
  /\ pending = {}
  /\ hits = <<>>
  /\ responseCache = <<>>
  /\ now = 0
  /\ elapsed = 0
  /\ seen = {}
  /\ missed = {}
  /\ trace = <<>>
  /\ usedHits = <<>>
  /\ result = <<>>
  /\ outcome = "running"
  /\ batch = <<>>
  /\ unit = NoCall
  /\ pool = <<>>
  /\ scrape = <<>>
  /\ \E vis \in SUBSET DiscUrls : disc = StartDiscovery(1, <<>>, vis)
  /\ legacy = <<>>
  /\ job = <<>>

\* one turn of the page loop: goto, the links, the test for the end of the
\* listing, the append loop; an error on the page is caught and the loop goes on
DiscoverPage ==
  /\ disc # <<>>
  /\ disc.phase = "pages"
  /\ disc.n <= MaxPages
  /\ \/ disc' = [disc EXCEPT !.n = @ + 1]
     \/ \E links \in LinkLists :
          IF links = <<>> /\ disc.lastNonEmptyPage # 0 /\ disc.n > disc.lastNonEmptyPage + 1
          THEN disc' = [disc EXCEPT !.phase = "ended"]
          ELSE disc' = [appendLinks(
                          [disc EXCEPT !.lastNonEmptyPage = IF links = <<>> THEN @ ELSE disc.n],
                          links)
                        EXCEPT !.n = @ + 1]
  /\ UNCHANGED <<evars, batch, unit, pool, scrape, legacy, job>>

\* the page loop ends at maxPages
DiscoverEnd ==
  /\ disc # <<>>
  /\ disc.phase = "pages"
  /\ disc.n > MaxPages
  /\ disc' = [disc EXCEPT !.phase = "ended"]
  /\ UNCHANGED <<evars, batch, unit, pool, scrape, legacy, job>>

\* the run has ended (or was killed) and discovery is started again
DiscoverAgain ==
  /\ disc # <<>>
  /\ disc.run < MaxRuns
  /\ disc' = StartDiscovery(disc.run + 1, disc.queueFile, disc.visitedLog)
  /\ UNCHANGED <<evars, batch, unit, pool, scrape, legacy, job>>

\* phase B visits a URL of the queue and writes its line to the visited log
QueuedUrlVisited(u) ==
  /\ disc # <<>>
  /\ u \in loadSet(disc.queueFile)
  /\ u \notin disc.visitedLog
  /\ disc' = [disc EXCEPT !.visitedLog = @ \cup {u}]
  /\ UNCHANGED <<evars, batch, unit, pool, scrape, legacy, job>>

NextDiscover ==
  \/ DiscoverPage
  \/ DiscoverEnd
  \/ DiscoverAgain
  \/ \E u \in DiscUrls : QueuedUrlVisited(u)

SpecDiscover == InitDiscover /\ [][NextDiscover]_vars

\* a batch run of either script
InitPools == InitBatch \/ InitPool
NextPools == NextBatch \/ NextPool
SpecPools == InitPools /\ [][NextPools]_vars

-----------------------------------------------------------------------------
(* The helpers of the extractors, each called on its own with inputs drawn
   from small sets *)

MimeJs == "text/javascript"      \* a content type outside every list of accept

\* {"popupPromoCode":{"code":"promo-aaaaaa"},"url":"https://whop.com/yd"}
BodyPopupLinkA ==
  <<LB, Key("popupPromoCode"), COLON, LB, Key("code"), COLON, SVal(CodeA), RB, COMMA,
    Key("url"), COLON, Link(RouteA), RB>>

UnitContexts ==
  {[route |-> r, productId |-> NullStr, companyId |-> NullStr] : r \in {NullStr, RouteA}}
UnitUrls ==
  {Url(HostWhop, <<RouteA>>, NullStr), Url(HostWhop, <<RouteB>>, NullStr),
   Url(HostWhop, <<ApiSeg, GraphqlSeg>>, NullStr), Url(HostForeign, <<RouteA>>, NullStr),
   Url(HostLookalike, <<RouteA>>, NullStr)}
UnitCts == {MimeJs, "text/html"}
\* {"route":"jb","popupPromoCode":{"code":"promo-bbbbbb"}}
BodyPopupRouteB ==
  <<LB, Key("route"), COLON, SVal(RouteB), COMMA, Key("popupPromoCode"), COLON, LB,
    Key("code"), COLON, SVal(CodeB), RB, RB>>

UnitBodies == {BodyPopupA, BodyPopupLinkA, BodyPlainA, BodyMentionB, BodyPopupRouteB}
UnitPosts == {NoPost, PostFor(RouteA), PostForProduct(ProductP)}

InitUnit ==
  /\ variant = "response"
  /\ opts = [currentRoute |-> NullStr, onlyThisCode |-> NullStr, timeoutMs |-> RunnerTimeoutMs]
  /\ pageUrl = PageUrl
  /\ ctx = [route |-> NullStr, productId |-> NullStr, companyId |-> NullStr]
  /\ pc = "unit"
  /\ attached = FALSE
  /\ pending = {}
  /\ hits = <<>>
  /\ responseCache = <<>>
  /\ now = 0
  /\ elapsed = 0
  /\ seen = {}
  /\ missed = {}
  /\ trace = <<>>
  /\ usedHits = <<>>
  /\ result = <<>>
  /\ outcome = "running"
  /\ batch = <<>>
  /\ unit = NoCall
  /\ pool = <<>>
  /\ scrape = <<>>
  /\ disc = <<>>
  /\ legacy = <<>>
  /\ job = <<>>

\* accept({ code, req, resp, body, ct, now })
CallAccept ==
  /\ pc = "unit"
  /\ unit.fn = "none"
  /\ \E v \in Variants, c \in UnitContexts, u \in UnitUrls, ct \in UnitCts,
        body \in UnitBodies, post \in UnitPosts :
       unit' = [unit EXCEPT
                  !.fn = "accept",
                  !.in = [v |-> v, ctx |-> c, url |-> u, ct |-> ct, body |-> body,
                          post |-> post],
                  !.out = accept(v, c, u, body, ct, post)]
  /\ UNCHANGED <<evars, batch, pvars>>

\* the three discount normalizers, each on the object
\* {"code":"promo-aaaaaa","<key>":<value>}
Normalizers == {"extractDiscountFieldsFromSnippet", "normalizeDiscountFromObject",
                "extractDiscountNearCode"}
DiscountKeys == {"discountOff", "percentOff", "amountOff", "discountPercent"}
DiscountValues == {DecTok(30), DecTok(7), DecTok(100), DotTok(30), NumTok(1), NumTok(45),
                   NumTok(100),
                   Pct(20)}
ObjectWith(key, x) ==
  <<LB, Key("code"), COLON, SVal(CodeA), COMMA, Key(key), COLON, x, RB>>

Normalize(fn, o) ==
  CASE fn = "extractDiscountFieldsFromSnippet" -> discountNearCode(o, CodeA)
    [] fn = "normalizeDiscountFromObject" ->
         IF JsonParses(o) THEN normalizeDiscountFromObject(o, 1) ELSE NoDiscount
    [] fn = "extractDiscountNearCode" -> extractDiscountNearCode(o, CodeA)

\* what each normalizer returns for each of the objects
Normalized ==
  [fn \in Normalizers |-> [key \in DiscountKeys |-> [x \in DiscountValues |->
     Normalize(fn, ObjectWith(key, x))]]]

CallNormalize ==
  /\ pc = "unit"
  /\ unit.fn = "none"
  /\ \E fn \in Normalizers, key \in DiscountKeys, x \in DiscountValues :
       unit' = [unit EXCEPT
                  !.fn = "normalize",
                  !.in = [fn |-> fn, key |-> key, value |-> x],
                  !.out = Normalized[fn][key][x]]
  /\ UNCHANGED <<evars, batch, pvars>>

MaxCalls == 3                    \* discount extractions made in a row

\* promo-aaaaaa "discountOff":"20%"   (no enclosing object)
BodyLoose == <<Bare(CodeA), Key("discountOff"), COLON, Pct(20)>>

\* {"code":"promo-aaaaaa","discountOff":"20%"   (the record is cut off)
BodyUnclosedA ==
  <<LB, Key("code"), COLON, SVal(CodeA), COMMA, Key("discountOff"), COLON, Pct(20)>>
\* {"code":"promo-aaaaaa"   (cut off, no discount member)
BodyUnclosedPlainA == <<LB, Key("code"), COLON, SVal(CodeA)>>
\* {"id":"pid"} promo-aaaaaa "discountOff":"20%"   (a record before the code)
BodyAfterObjectLooseA ==
  <<LB, Key("id"), COLON, SVal(ProductP), RB, Bare(CodeA), Key("discountOff"), COLON,
    Pct(20)>>
DiscountBodies ==
  {BodyPopupA, BodyAmountA, BodyLoose, BodyUnclosedA, BodyUnclosedPlainA,
   BodyAfterObjectLooseA}

\* the discount extraction of a handler for the code at an offset of a body:
\* extractNearestJsonObject + extractDiscountFieldsFromSnippet, or
\* extractBundleFromBody + the nearby window
ExtractDiscount(v, body, code, index) ==
  IF v = "response" THEN discountNearCode(body, code)
  ELSE bundleNearIndex(body, code, index)

\* what the extraction returns for the code at each offset of each body
ExtractedDiscounts ==
  [v \in Variants |-> [body \in DiscountBodies |-> [index \in CodePositions(body) |->
     ExtractDiscount(v, body, toLowerCase(body[index].t), index)]]]

CallExtractDiscount ==
  /\ pc = "unit"
  /\ unit.fn \in {"none", "discount"}
  /\ Len(unit.log) < MaxCalls
  /\ \E v \in Variants, body \in DiscountBodies :
       \E index \in CodePositions(body) :
         LET in == [v |-> v, body |-> body, index |-> index]
             out == ExtractedDiscounts[v][body][index]
         IN unit' = [fn |-> "discount", in |-> in, out |-> out,
                     log |-> Append(unit.log, [in |-> in, out |-> out])]
  /\ UNCHANGED <<evars, batch, pvars>>

\* the page URLs the resolver is given: a product page, the root of the
\* site, a path with an empty first segment, and text that is no URL
RootUrl == Url(HostWhop, <<>>, NullStr)
DoubleSlashUrl == Url(HostWhop, <<NullStr, RouteA>>, NullStr)
BadUrl == Url(NullStr, <<>>, NullStr)
ResolverUrls == {PageUrl, RootUrl, DoubleSlashUrl, BadUrl}
ResolverHints == {NullStr, RouteA, RouteB}

\* what page.evaluate does: it resolves with the ids found (none where the
\* page function caught its own error), or it rejects
NoInline == [productId |-> NullStr, companyId |-> NullStr]
EvaluateOutcomes ==
  {[kind |-> "resolved", inline |-> PageInline],
   [kind |-> "resolved", inline |-> NoInline],
   [kind |-> "rejected", inline |-> NoInline]}

Threw == [threw |-> TRUE]

\* await getPageContext(page, fallbackRoute): a PageIdentity, or the rejection
\* of page.evaluate, which nothing in the resolver catches
resolve(u, fallbackRoute, ev) ==
  IF ev.kind = "rejected" THEN Threw
  ELSE getPageContext(u, fallbackRoute, ev.inline)

CallGetPageContext ==
  /\ pc = "unit"
  /\ unit.fn = "none"
  /\ \E u \in ResolverUrls, hint \in ResolverHints, ev \in EvaluateOutcomes :
       unit' = [unit EXCEPT
                  !.fn = "getPageContext",
                  !.in = [url |-> u, hint |-> hint, evaluate |-> ev],
                  !.out = resolve(u, hint, ev)]
  /\ UNCHANGED <<evars, batch, pvars>>

\* the codes a caller may ask for: none, a code as the site writes it, and
\* the same code in upper case
CodeBUpper == <<"P", "R", "O", "M", "O", "-", "B", "B", "B", "B", "B", "B">>
CallerCodes == {NullStr, CodeB, CodeBUpper}

\* one response through the handler, then the return of the extractor
extractOne(v, c, o, id) ==
  LET hs == handlerHits(v, id, Responses[id], c, o, 0)
      cache == IF v = "response" /\ handlerCaches(Responses[id], o)
               THEN <<id>> ELSE <<>>
  IN [hits |-> hs, result |-> returned(v, c.route, o, hs, cache)]

Extracted ==
  [v \in Variants |-> [c \in Contexts |-> [o \in CallerCodes |-> [id \in RespIds |->
     extractOne(v, c, o, id)]]]]

CallExtract ==
  /\ pc = "unit"
  /\ unit.fn = "none"
  /\ \E v \in Variants, c \in Contexts, only \in CallerCodes, id \in RespIds :
       LET o == IF v = "response" THEN only ELSE NullStr
       IN unit' = [unit EXCEPT
                     !.fn = "extract",
                     !.in = [v |-> v, ctx |-> c, onlyThisCode |-> o, id |-> id],
                     !.out = Extracted[v][c][o][id]]
  /\ UNCHANGED <<evars, batch, pvars>>

\* {"meta":{"id":"pid"},"code":"promo-aaaaaa","discountOff":"20%"}
BodySiblingA ==
  <<LB, Key("meta"), COLON, LB, Key("id"), COLON, SVal(ProductP), RB, COMMA,
    Key("code"), COLON, SVal(CodeA), COMMA, Key("discountOff"), COLON, Pct(20), RB>>
\* {"id":"pid"} promo-aaaaaa
BodyAfterObjectA == <<LB, Key("id"), COLON, SVal(ProductP), RB, Bare(CodeA)>>

SliceBodies == {BodyPopupA, BodyPlainA, BodySiblingA, BodyAfterObjectA, BodyLoose}

NoSpan == [lo |-> 0, hi |-> 0]

\* where the slice of either slicer begins and ends in the text: from the
\* nearest '{' at or before the offset to the '}' that brings the depth,
\* counted from there, back to 0 (the window of sliceEnclosingJsonObject is
\* wider than these texts)
sliceSpan(v, text, codeIndex) ==
  LET start == openBefore(text, codeIndex)
      close == IF start = 0 THEN 0 ELSE closeAfter(text, start)
  IN IF start = 0 \/ close = 0 THEN NoSpan
     ELSE IF v = "response" /\ extractNearestJsonObject(text, codeIndex) = <<>> THEN NoSpan
     ELSE [lo |-> start, hi |-> close]

\* the record slice a handler works on for the code at an offset of a body
CallSlice ==
  /\ pc = "unit"
  /\ unit.fn = "none"
  /\ \E v \in Variants, body \in SliceBodies :
       \E index \in CodePositions(body) :
         unit' = [unit EXCEPT
                    !.fn = "slice",
                    !.in = [v |-> v, body |-> body, index |-> index],
                    !.out = [span |-> sliceSpan(v, body, index),
                             slice |-> IF v = "response"
                                       THEN extractNearestJsonObject(body, index)
                                       ELSE sliceEnclosingJsonObject(body, index)]]
  /\ UNCHANGED <<evars, batch, pvars>>

\* the longest one call of the extractor lasts where every wait runs into its
\* timeout: goto, wait, reload, networkidle, wait
VisitBudgetMs == NavTimeout + WaitAfterGoto + NavTimeout + LoadStateTimeout + WaitAfterReload

\* capture times of one visit, in milliseconds after its first capture
CaptureTimes == {0, 1, VisitBudgetMs}

\* hits of one code that differ in what the score looks at
ScoredHits ==
  {Hit(CodeA, "doc", ct, ts, r, d) :
     ct \in {"application/json", "text/html"}, ts \in CaptureTimes, r \in {NullStr, RouteA},
     d \in {NoDiscount, [NoDiscount EXCEPT !.pct = Num(20)]}}

\* the comparator of the final sort on two hits: the score of each
CallScore ==
  /\ pc = "unit"
  /\ unit.fn = "none"
  /\ \E v \in Variants, a \in ScoredHits, b \in ScoredHits :
       unit' = [unit EXCEPT
                  !.fn = "score",
                  !.in = [v |-> v, currentRoute |-> RouteA, a |-> a, b |-> b],
                  !.out = [a |-> score(v, RouteA, a), b |-> score(v, RouteA, b)]]
  /\ UNCHANGED <<evars, batch, pvars>>

NextUnit ==
  \/ CallScore
  \/ CallGetPageContext
  \/ CallExtract
  \/ CallAccept
  \/ CallNormalize
  \/ CallExtractDiscount
  \/ CallSlice

SpecUnit == InitUnit /\ [][NextUnit]_vars

-----------------------------------------------------------------------------
(* The first version of extractPopupPromoFromNetwork (extractPromo.js, lines
   106-287): the runner has loaded the page, the call reloads it *)

MaxLegacyArrivals == 2           \* responses the page receives during one call

\* {"product":{"id":"pid"},"route":"jb"}
BodyLegacyFeedB ==
  <<LB, Key("product"), COLON, LB, Key("id"), COLON, SVal(ProductP), RB, COMMA,
    Key("route"), COLON, SVal(RouteB), RB>>

LegacyResponses ==
  [ feed  |-> [url |-> Url(HostWhop, <<ApiSeg, GraphqlSeg>>, NullStr),
               ct |-> "application/json", body |-> BodyLegacyFeedB],
    popup |-> [url |-> Url(HostWhop, <<RouteB>>, NullStr),
               ct |-> "text/x-component", body |-> BodyPopupRouteB],
    image |-> [url |-> Url(HostWhop, <<LogoSeg>>, NullStr),
               ct |-> "image/png", body |-> <<>>] ]

LegacyPageUrls == {PageUrl, RootUrl}

\* SKIP_EXT.test(url.pathname), for the paths of LegacyResponses
skipExt(u) == u.path # <<>> /\ endsWith(u.path[Len(u.path)], <<".", "p", "n", "g">>)

\* the text of the first member named key whose value is a string ('' if none)
firstStringOf(body, key) ==
  LET at == {i \in 1..(Len(body) - 2) :
               body[i] = Key(key) /\ body[i + 1] = COLON /\ body[i + 2].k = "str"}
  IN IF at = {} THEN NullStr
     ELSE body[(CHOOSE i \in at : \A j \in at : i <= j) + 2].t

\* the id of the first object member named key ('' if none)
firstIdOf(body, key) ==
  LET at == {i \in 1..(Len(body) - 5) :
               /\ body[i] = Key(key) /\ body[i + 1] = COLON /\ body[i + 2] = LB
               /\ body[i + 3] = Key("id") /\ body[i + 4] = COLON /\ body[i + 5].k = "str"}
  IN IF at = {} THEN NullStr
     ELSE body[(CHOOSE i \in at : \A j \in at : i <= j) + 5].t

\* the route of the first whop.com link of the body, api and _next left out
firstLinkRoute(body) ==
  LET at == {i \in 1..Len(body) : body[i].k = "link"}
      t == IF at = {} THEN NullStr ELSE body[CHOOSE i \in at : \A j \in at : i <= j].t
  IN IF t = ApiSeg THEN NullStr ELSE t

orElse(a, b) == IF a # NullStr THEN a ELSE b

\* discoverContext(s) of the first version
discoverContext(body) ==
  [productId |-> orElse(firstStringOf(body, "productId"), firstIdOf(body, "product")),
   companyId |-> orElse(firstStringOf(body, "companyId"), firstIdOf(body, "company")),
   route |-> orElse(firstStringOf(body, "route"), firstLinkRoute(body))]

\* /whop\.com\/([^/?]+)/.exec(page.url()), api and _next left out: { route }
\* or null
contextOfUrl(u) ==
  IF includes(u.host, WhopCom) /\ u.path # <<>> /\ u.path[1] # <<>> /\ u.path[1] # ApiSeg
  THEN <<[route |-> u.path[1], productId |-> NullStr, companyId |-> NullStr]>>
  ELSE <<>>

\* body.includes('"product"') || body.includes('"company"')
namesProductOrCompany(body) ==
  \E i \in 1..Len(body) : body[i] = Key("product") \/ body[i] = Key("company")

\* body.includes('popupPromoCode') || /promo-[a-z0-9]{6,}/i.test(body)
hasPromoCode(body) ==
  \/ BodyHas(body, TokHasPopupWord)
  \/ \E i \in 1..Len(body) : body[i].k \in {"str", "bare"} /\ includes(toLowerCase(body[i].t), PromoDash)

\* the hits the handler pushes for a body: its loop over PROMO_REGEXES starts
\* with body.matchAll(rx) for a regular expression without the g flag, which
\* throws a TypeError; the catch of the handler swallows it before any push
legacyHits(body) == <<>>

InitLegacy ==
  /\ variant = "response"
  /\ opts = [currentRoute |-> NullStr, onlyThisCode |-> NullStr, timeoutMs |-> RunnerTimeoutMs]
  /\ pageUrl = PageUrl
  /\ ctx = [route |-> NullStr, productId |-> NullStr, companyId |-> NullStr]
  /\ pc = "legacy"
  /\ attached = FALSE
  /\ pending = {}
  /\ hits = <<>>
  /\ responseCache = <<>>
  /\ now = 0
  /\ elapsed = 0
  /\ seen = {}
  /\ missed = {}
  /\ trace = <<>>
  /\ usedHits = <<>>
  /\ result = <<>>
  /\ outcome = "running"
  /\ batch = <<>>
  /\ unit = NoCall
  /\ pool = <<>>
  /\ scrape = <<>>
  /\ disc = <<>>
  /\ \E u \in LegacyPageUrls :
       legacy = [step |-> "url", pageUrl |-> u, pageCtx |-> <<>>, attached |-> FALSE,
                 arrived |-> <<>>, reading |-> {}, handled |-> <<>>, hits |-> <<>>,
                 trace |-> <<>>, failed |-> FALSE, outcome |-> "running",
                 result |-> <<>>]
  /\ job = <<>>

\* let pageCtx = null; the context taken from page.url()
LegacyUrlContext ==
  /\ legacy.step = "url"
  /\ legacy' = [legacy EXCEPT !.pageCtx = contextOfUrl(legacy.pageUrl), !.step = "on"]
  /\ UNCHANGED <<evars, batch, unit, pool, scrape, disc, job>>

\* page.on('response', handler); await page.waitForTimeout(1500)
LegacyOn ==
  /\ legacy.step = "on"
  /\ legacy' = [legacy EXCEPT !.attached = TRUE, !.step = "reload1"]
  /\ UNCHANGED <<evars, batch, unit, pool, scrape, disc, job>>

\* await page.reload(...) inside the try: it resolves, or it rejects and the
\* catch logs a warning and the call goes on to page.off
LegacyReload ==
  /\ legacy.step \in {"reload1", "reload2"}
  /\ \/ legacy' = [legacy EXCEPT
                     !.trace = Append(@, "reload"),
                     !.step = IF legacy.step = "reload1" THEN "idle1" ELSE "idle2"]
     \/ legacy' = [legacy EXCEPT
                     !.trace = Append(@, "reload"), !.failed = TRUE, !.step = "off"]
  /\ UNCHANGED <<evars, batch, unit, pool, scrape, disc, job>>

\* waitForLoadState('networkidle').catch(() => {}); waitForTimeout(1500); after
\* the first cycle: if (hits.length === 0) go for one more cycle
LegacyIdle ==
  /\ legacy.step \in {"idle1", "idle2"}
  /\ legacy' = [legacy EXCEPT
                  !.step = IF legacy.step = "idle1" /\ legacy.hits = <<>>
                           THEN "reload2" ELSE "off"]
  /\ UNCHANGED <<evars, batch, unit, pool, scrape, disc, job>>

\* page.off('response', handler); null without hits, else the best hit
LegacyOff ==
  /\ legacy.step = "off"
  /\ legacy' = [legacy EXCEPT
                  !.attached = FALSE,
                  !.step = "done",
                  !.outcome = "returned",
                  !.result = IF legacy.hits = <<>> THEN <<>> ELSE <<legacy.hits[1]>>]
  /\ UNCHANGED <<evars, batch, unit, pool, scrape, disc, job>>

\* the page receives a response: the handler is called, leaves at once for a
\* host outside whop.com or a static asset, else awaits the body
LegacyResponse(id) ==
  /\ legacy.attached
  /\ Len(legacy.arrived) < MaxLegacyArrivals
  /\ \A k \in 1..Len(legacy.arrived) : legacy.arrived[k] # id
  /\ LET r == LegacyResponses[id]
     IN legacy' = [legacy EXCEPT
                     !.arrived = Append(@, id),
                     !.reading = IF hostIsWhop(hostname(r.url)) /\ ~skipExt(r.url)
                                 THEN @ \cup {id} ELSE @]
  /\ UNCHANGED <<evars, batch, unit, pool, scrape, disc, job>>

\* the body of a response arrives and the rest of the handler runs: an empty
\* body ends it; pageCtx, where still null, is taken from a body that names a
\* product or a company; then the hits of the body
LegacyBodyRead(id) ==
  /\ id \in legacy.reading
  /\ LET body == LegacyResponses[id].body
     IN legacy' = [legacy EXCEPT
                     !.reading = @ \ {id},
                     !.handled = Append(@, id),
                     !.pageCtx = IF body # <<>> /\ @ = <<>> /\ namesProductOrCompany(body)
                                 THEN <<discoverContext(body)>> ELSE @,
                     !.hits = IF body # <<>> /\ hasPromoCode(body)
                              THEN @ \o legacyHits(body) ELSE @]
  /\ UNCHANGED <<evars, batch, unit, pool, scrape, disc, job>>

NextLegacy ==
  \/ LegacyUrlContext
  \/ LegacyOn
  \/ LegacyReload
  \/ LegacyIdle
  \/ LegacyOff
  \/ \E id \in DOMAIN LegacyResponses : LegacyResponse(id)
  \/ \E id \in DOMAIN LegacyResponses : LegacyBodyRead(id)

SpecLegacy == InitLegacy /\ [][NextLegacy]_vars

-----------------------------------------------------------------------------
(* The discount backfill (simple_discount_extract.js): resume, then one
   iteration of the loop per remaining record *)

MaxRecords == 2                  \* (url, code) pairs of the visited log
MaxLines == 2                    \* lines the output file holds when the run starts
MaxAttempts == 2                 \* tryExtract(page, url, opts, attempts = 2)
MaxProducts == 2                 \* product pages discoverProductCandidates returns

Records == 1..MaxRecords
LineKinds == {"error", "null", "discount"}
OutLines == [rec : Records, kind : LineKinds]
OutFiles == UNION {[1..n -> OutLines] : n \in 0..MaxLines}

\* the extractor is not part of the run being modelled
ExtractorIdle(p) ==
  /\ variant = "response"
  /\ opts = [currentRoute |-> NullStr, onlyThisCode |-> NullStr, timeoutMs |-> RunnerTimeoutMs]
  /\ pageUrl = PageUrl
  /\ ctx = [route |-> NullStr, productId |-> NullStr, companyId |-> NullStr]
  /\ pc = p
  /\ attached = FALSE
  /\ pending = {}
  /\ hits = <<>>
  /\ responseCache = <<>>
  /\ now = 0
  /\ elapsed = 0
  /\ seen = {}
  /\ missed = {}
  /\ trace = <<>>
  /\ usedHits = <<>>
  /\ result = <<>>
  /\ outcome = "running"
  /\ batch = <<>>
  /\ unit = NoCall
  /\ pool = <<>>
  /\ scrape = <<>>
  /\ disc = <<>>
  /\ legacy = <<>>

\* the Set processed: the pairs of the lines the resume loop adds
processed(lines, redoNull, redoFail) ==
  {lines[k].rec : k \in {j \in 1..Len(lines) :
      IF lines[j].kind = "error" /\ ~redoFail THEN TRUE
      ELSE lines[j].kind = "discount" \/ ~redoNull}}

\* unique.filter(r => !processed.has(...)), in the order of the visited log
remainingOf(lines, redoNull, redoFail) ==
  SelectSeq([i \in 1..MaxRecords |-> i],
            LAMBDA r : r \notin processed(lines, redoNull, redoFail))

InitBackfill ==
  /\ ExtractorIdle("backfill")
  /\ \E lines \in OutFiles, rn \in BOOLEAN, rf \in BOOLEAN, n \in 1..MaxAttempts :
       job = [step |-> "resume", redoNull |-> rn, redoFail |-> rf, existing |-> lines,
              out |-> <<>>, remaining |-> <<>>, started |-> <<>>, stopping |-> FALSE,
              attempts |-> n, rec |-> 0, pages |-> {}, page |-> "none", target |-> "none",
              i |-> 0, last |-> "none", tries |-> <<>>, products |-> 0, opened |-> 0,
              leaked |-> FALSE]

\* the resume block and the filter; existing, the lines of the output file
\* read by the block, is local to it, and out holds the lines this run appends
BackfillResume ==
  /\ job.step = "resume"
  /\ job' = [job EXCEPT
               !.remaining = remainingOf(job.existing, job.redoNull, job.redoFail),
               !.existing = <<>>,
               !.step = "next"]
  /\ UNCHANGED <<evars, batch, unit, pool, scrape, disc, legacy>>

\* a tryExtract that goes round once more after its last attempt
moreAttemptsAlways(i, attempts) == i < attempts

\* if (i < attempts - 1): another attempt follows
moreAttempts(i, attempts) == i < attempts - 1

\* a product loop that leaves the page of a failed product attempt open
afterAttemptKept(pages, page, p2) == pages

\* finally { if (p2 !== page) await p2.close() }
afterAttempt(pages, page, p2) == IF p2 # page THEN pages \ {p2} ELSE pages

ExtractOutcomes == {"discount", "none", "throws"}

\* the head of the loop: break on stopping, else the next record and its page;
\* context.newPage() is outside the try, its rejection ends the script
BackfillLoopHead ==
  /\ job.step = "next"
  /\ \/ /\ job.stopping \/ job.remaining = <<>>
        /\ job' = [job EXCEPT !.step = "done"]
     \/ /\ ~job.stopping /\ job.remaining # <<>>
        /\ \/ job' = [job EXCEPT
                        !.rec = Head(job.remaining), !.remaining = Tail(@),
                        !.started = Append(@, Head(job.remaining)),
                        !.pages = {"base"}, !.opened = 1, !.page = "base",
                        !.target = "base", !.i = 0, !.tries = <<>>, !.last = "none",
                        !.step = "extract"]
           \/ job' = [job EXCEPT !.step = "crashed"]
  /\ UNCHANGED <<evars, batch, unit, pool, scrape, disc, legacy>>

\* one turn of the loop of tryExtract: the extractor is called; a result with
\* a discount is returned at once, a rejection leaves tryExtract as it is
BackfillExtract ==
  /\ job.step = "extract"
  /\ \E o \in ExtractOutcomes :
       job' = [job EXCEPT
                 !.tries = Append(@, o),
                 !.last = IF o = "throws" THEN @ ELSE o,
                 !.step = IF o = "throws" THEN "thrown"
                          ELSE IF o = "discount" THEN "returned"
                          ELSE IF moreAttempts(job.i, job.attempts) THEN "reload"
                          ELSE "returned"]
  /\ UNCHANGED <<evars, batch, unit, pool, scrape, disc, legacy>>

\* waitForTimeout, page.reload(...).catch(), waitForLoadState(...).catch(), i++
BackfillReload ==
  /\ job.step = "reload"
  /\ job' = [job EXCEPT !.tries = Append(@, "reload"), !.i = @ + 1, !.step = "extract"]
  /\ UNCHANGED <<evars, batch, unit, pool, scrape, disc, legacy>>

\* tryExtract returned: for the base page the test for a discount; for a
\* product page the test, the break and the inner finally
BackfillReturned ==
  /\ job.step = "returned"
  /\ IF job.target = "base"
     THEN job' = [job EXCEPT !.step = IF job.last = "discount" THEN "write" ELSE "discover"]
     ELSE IF job.last = "discount"
     THEN job' = [job EXCEPT
                    !.page = "prod",
                    !.pages = afterAttempt(job.pages, "prod", "prod"),
                    !.step = "write"]
     ELSE job' = [job EXCEPT
                    !.pages = afterAttempt(job.pages, job.page, "prod"),
                    !.products = @ - 1,
                    !.step = "product"]
  /\ UNCHANGED <<evars, batch, unit, pool, scrape, disc, legacy>>

\* the extractor rejected: the inner finally of a product attempt, then the
\* catch of the record
BackfillThrown ==
  /\ job.step = "thrown"
  /\ job' = [job EXCEPT
               !.pages = IF job.target = "prod"
                         THEN afterAttempt(job.pages, job.page, "prod") ELSE @,
               !.step = "caught"]
  /\ UNCHANGED <<evars, batch, unit, pool, scrape, disc, legacy>>

\* discoverProductCandidates: context.newPage(), whose rejection goes to the
\* catch of the record
BackfillDiscoverOpen ==
  /\ job.step = "discover"
  /\ \/ job' = [job EXCEPT !.pages = @ \cup {"disc"}, !.opened = @ + 1,
                             !.step = "discovering"]
     \/ job' = [job EXCEPT !.step = "caught"]
  /\ UNCHANGED <<evars, batch, unit, pool, scrape, disc, legacy>>

\* the rest of discoverProductCandidates: whatever its try does, the finally
\* closes the page; up to MaxProducts candidates come back
BackfillDiscoverClose ==
  /\ job.step = "discovering"
  /\ \E n \in 0..MaxProducts :
       job' = [job EXCEPT !.pages = @ \ {"disc"}, !.products = n, !.step = "product"]
  /\ UNCHANGED <<evars, batch, unit, pool, scrape, disc, legacy>>

\* the head of the product loop: await page.close(); p2 = context.newPage()
\* (outside the inner try); then tryExtract on p2
BackfillProduct ==
  /\ job.step = "product"
  /\ IF job.products = 0
     THEN job' = [job EXCEPT !.step = "write"]
     ELSE \/ job' = [job EXCEPT
                       !.pages = (@ \ {job.page}) \cup {"prod"}, !.opened = @ + 1,
                       !.target = "prod", !.i = 0, !.tries = <<>>, !.last = "none",
                       !.step = "extract"]
          \/ job' = [job EXCEPT !.pages = @ \ {job.page}, !.step = "caught"]
  /\ UNCHANGED <<evars, batch, unit, pool, scrape, disc, legacy>>

\* the output line of the record; a failing append goes to the catch
BackfillWrite ==
  /\ job.step = "write"
  /\ \/ job' = [job EXCEPT
                  !.out = Append(@, [rec |-> job.rec,
                                     kind |-> IF job.last = "discount" THEN "discount"
                                              ELSE "null"]),
                  !.step = "finally"]
     \/ job' = [job EXCEPT !.step = "caught"]
  /\ UNCHANGED <<evars, batch, unit, pool, scrape, disc, legacy>>

\* catch (e): the error line of the record
BackfillCaught ==
  /\ job.step = "caught"
  /\ job' = [job EXCEPT !.out = Append(@, [rec |-> job.rec, kind |-> "error"]),
                        !.step = "finally"]
  /\ UNCHANGED <<evars, batch, unit, pool, scrape, disc, legacy>>

\* finally { await page.close().catch(); ... }: the iteration ends
BackfillFinally ==
  /\ job.step = "finally"
  /\ job' = [job EXCEPT
               !.pages = @ \ {job.page},
               !.leaked = (job.pages \ {job.page}) # {},
               !.step = "next"]
  /\ UNCHANGED <<evars, batch, unit, pool, scrape, disc, legacy>>

\* SIGINT or SIGTERM
BackfillSignal ==
  /\ job.step \notin {"resume", "done", "crashed"}
  /\ ~job.stopping
  /\ job' = [job EXCEPT !.stopping = TRUE]
  /\ UNCHANGED <<evars, batch, unit, pool, scrape, disc, legacy>>

BackfillNext ==
  \/ BackfillResume
  \/ BackfillLoopHead
  \/ BackfillExtract
  \/ BackfillReload
  \/ BackfillReturned
  \/ BackfillThrown
  \/ BackfillDiscoverOpen
  \/ BackfillDiscoverClose
  \/ BackfillProduct
  \/ BackfillWrite
  \/ BackfillCaught
  \/ BackfillFinally
  \/ BackfillSignal

SpecBackfill == InitBackfill /\ [][BackfillNext]_vars

(***************************************************************************)
(* collectAllWhopLinksFromWhpCodes of scrape-from-whpcodes.js: the probe   *)
(* for the pagination scheme, then the loop over the listing pages         *)
(***************************************************************************)

WHPCODES_MAX_PAGES == 3          \* parseInt(process.env.WHPCODES_MAX_PAGES || '200', 10)

\* the two schemes probed in turn: /?page=N, then /page/N
Schemes == 1..2

\* the links of an array, as new Set(...) or collected.add keeps them
linkSet(links) == {links[k] : k \in 1..Len(links)}

InitCollect ==
  /\ ExtractorIdle("collect")
  /\ job = [step |-> "probe",        \* probe | fallback | pages | after | returned | rejected
            scheme |-> 1,            \* the scheme being probed
            makePageUrl |-> 0,       \* the scheme that works (0: none yet)
            n |-> 1,
            lastNonEmptyPage |-> 0,
            collected |-> {},
            loaded |-> 0,            \* the listing pages the loop has loaded
            stoppedBy |-> "",        \* what ended the loop: maxPages | empty | bounce | error
            pageOpen |-> TRUE]       \* context.newPage() was not closed yet

\* one scheme probed: pages 1 and 2 are loaded and the two URLs compared; a
\* throw inside the probe is caught and the next scheme is tried
CollectProbe ==
  /\ job # <<>>
  /\ job.step = "probe"
  /\ \E r \in {"changed", "same", "throws"} :
       IF r = "changed"
       THEN job' = [job EXCEPT !.makePageUrl = job.scheme, !.step = "pages"]
       ELSE IF job.scheme + 1 \in Schemes
            THEN job' = [job EXCEPT !.scheme = @ + 1]
            ELSE job' = [job EXCEPT !.step = "fallback"]
  /\ UNCHANGED <<evars, batch, unit, pool, scrape, disc, legacy>>

\* no scheme works: the base URL alone is loaded, outside any try
CollectFallback ==
  /\ job # <<>>
  /\ job.step = "fallback"
  /\ \/ job' = [job EXCEPT !.step = "rejected"]
     \/ \E links \in LinkLists :
          job' = [job EXCEPT !.collected = linkSet(links), !.pageOpen = FALSE,
                             !.step = "returned"]
  /\ UNCHANGED <<evars, batch, unit, pool, scrape, disc, legacy>>

\* one turn of the page loop: loadAndGrab(url) outside any try, the test for
\* a bounce back to page 1, the test for the end of the listing
CollectPage ==
  /\ job # <<>>
  /\ job.step = "pages"
  /\ job.n <= WHPCODES_MAX_PAGES
  /\ \/ job' = [job EXCEPT !.loaded = @ + 1, !.stoppedBy = "error", !.step = "rejected"]
     \/ /\ job.n > 1
        /\ job' = [job EXCEPT !.loaded = @ + 1, !.stoppedBy = "bounce", !.step = "after"]
     \/ \E links \in LinkLists :
          IF links = <<>> /\ job.lastNonEmptyPage # 0 /\ job.n > job.lastNonEmptyPage + 1
          THEN job' = [job EXCEPT !.loaded = @ + 1, !.stoppedBy = "empty", !.step = "after"]
          ELSE job' = [job EXCEPT !.loaded = @ + 1,
                                  !.lastNonEmptyPage = IF links = <<>> THEN @ ELSE job.n,
                                  !.collected = @ \cup linkSet(links),
                                  !.n = @ + 1]
  /\ UNCHANGED <<evars, batch, unit, pool, scrape, disc, legacy>>

\* the loop condition n <= maxPages fails
CollectEnd ==
  /\ job # <<>>
  /\ job.step = "pages"
  /\ job.n > WHPCODES_MAX_PAGES
  /\ job' = [job EXCEPT !.stoppedBy = "maxPages", !.step = "after"]
  /\ UNCHANGED <<evars, batch, unit, pool, scrape, disc, legacy>>

\* await page.close(); return Array.from(collected)
CollectClose ==
  /\ job # <<>>
  /\ job.step = "after"
  /\ job' = [job EXCEPT !.pageOpen = FALSE, !.step = "returned"]
  /\ UNCHANGED <<evars, batch, unit, pool, scrape, disc, legacy>>

CollectNext ==
  \/ CollectProbe
  \/ CollectFallback
  \/ CollectPage
  \/ CollectEnd
  \/ CollectClose

SpecCollect == InitCollect /\ [][CollectNext]_vars

(***************************************************************************)
(* update_discounts.js: one run over the visited log                       *)
(***************************************************************************)

\* loadRecords(): the records of data/visited.jsonl, each with or without a
\* code (r.found && r.code)
VisitedLogs ==
  UNION {[1..n -> BOOLEAN] : n \in 0..MaxRecords}

\* allRecords.filter(r => r.found && r.code), as places in the log
withCodes(allRecords) ==
  SelectSeq([i \in 1..Len(allRecords) |-> i], LAMBDA i : allRecords[i])

\* allRecords.filter(r => !r.found || !r.code)
recordsWithoutCodes(allRecords) ==
  SelectSeq([i \in 1..Len(allRecords) |-> i], LAMBDA i : ~allRecords[i])

\* the lines appended for the records rs, each JSON.stringify(rec)
unchangedLines(rs) == [k \in 1..Len(rs) |-> [rec |-> rs[k], form |-> "original"]]

InitUpdate ==
  /\ ExtractorIdle("update")
  /\ \E log \in VisitedLogs :
       job = [step |-> "start",      \* start | newPage | try | heartbeat | catch | finally | done | rejected
              allRecords |-> log,
              k |-> 1,               \* the place in withCodes of oldRecord
              out |-> <<>>,          \* the lines appended to visited_with_discounts.jsonl
              processed |-> 0,
              pageOpen |-> FALSE,
              heartbeat |-> "none"]  \* status of the last heartbeat written

\* the records without a code are appended first
UpdateWriteWithoutCodes ==
  /\ job # <<>>
  /\ job.step = "start"
  /\ job' = [job EXCEPT !.out = unchangedLines(recordsWithoutCodes(job.allRecords)),
                        !.step = "newPage"]
  /\ UNCHANGED <<evars, batch, unit, pool, scrape, disc, legacy>>

\* const page = await context.newPage(), before the try
UpdateNewPage ==
  /\ job # <<>>
  /\ job.step = "newPage"
  /\ job.k <= Len(withCodes(job.allRecords))
  /\ \/ job' = [job EXCEPT !.pageOpen = TRUE, !.step = "try"]
     \/ job' = [job EXCEPT !.step = "rejected"]
  /\ UNCHANGED <<evars, batch, unit, pool, scrape, disc, legacy>>

\* the try block up to processed++: goto, the extractor, the updated record
\* appended; goto or the extractor may throw
UpdateTry ==
  /\ job # <<>>
  /\ job.step = "try"
  /\ \/ job' = [job EXCEPT !.step = "catch"]
     \/ \E hit \in {"discount", "none"} :
          job' = [job EXCEPT
                    !.out = Append(@, [rec |-> withCodes(job.allRecords)[job.k],
                                       form |-> IF hit = "discount" THEN "updated" ELSE "nulled"]),
                    !.processed = @ + 1,
                    !.step = "heartbeat"]
  /\ UNCHANGED <<evars, batch, unit, pool, scrape, disc, legacy>>

\* updateHeartbeat({...status: 'running'}) as the last statement of the try:
\* writeFileSync writes the file or throws
UpdateHeartbeat ==
  /\ job # <<>>
  /\ job.step = "heartbeat"
  /\ \/ job' = [job EXCEPT !.heartbeat = "running", !.step = "finally"]
     \/ job' = [job EXCEPT !.step = "catch"]
  /\ UNCHANGED <<evars, batch, unit, pool, scrape, disc, legacy>>

\* catch (e): the original record is appended, processed++
UpdateCatch ==
  /\ job # <<>>
  /\ job.step = "catch"
  /\ job' = [job EXCEPT
               !.out = Append(@, [rec |-> withCodes(job.allRecords)[job.k], form |-> "original"]),
               !.processed = @ + 1,
               !.step = "finally"]
  /\ UNCHANGED <<evars, batch, unit, pool, scrape, disc, legacy>>

\* finally: page.close(); then the pause and the next record
UpdateFinally ==
  /\ job # <<>>
  /\ job.step = "finally"
  /\ job' = [job EXCEPT !.pageOpen = FALSE, !.k = @ + 1, !.step = "newPage"]
  /\ UNCHANGED <<evars, batch, unit, pool, scrape, disc, legacy>>

\* after the loop: browser.close() and the heartbeat of the end
UpdateCompleted ==
  /\ job # <<>>
  /\ job.step = "newPage"
  /\ job.k > Len(withCodes(job.allRecords))
  /\ job' = [job EXCEPT !.heartbeat = "completed", !.step = "done"]
  /\ UNCHANGED <<evars, batch, unit, pool, scrape, disc, legacy>>

UpdateNext ==
  \/ UpdateWriteWithoutCodes
  \/ UpdateNewPage
  \/ UpdateTry
  \/ UpdateHeartbeat
  \/ UpdateCatch
  \/ UpdateFinally
  \/ UpdateCompleted

SpecUpdate == InitUpdate /\ [][UpdateNext]_vars

-----------------------------------------------------------------------------
(* Properties of one page visit (Spec) *)

\* the host a hit or a result was taken from (the page itself for the HTML
\* fallback)
SourceHost(src) ==
  IF src = "html" THEN hostname(pageUrl) ELSE hostname(Responses[src].url)

InTrace(op) == \E i \in 1..Len(trace) : trace[i] = op

\* C1: no code of a response whose host is not the application domain
\* (whop.com or one of its subdomains) is accepted as a candidate or returned
\* as the result, for every currentRoute and onlyThisCode.
C1_OnlyExpectedHost ==
  /\ \A i \in 1..Len(hits) : IsExpectedHost(SourceHost(hits[i].src))
  /\ \A i \in 1..Len(result) : IsExpectedHost(SourceHost(result[i].src))

\* a query submission whose variables name an identity, none of which is the
\* page's
ForeignSubmission(r, c) ==
  /\ isGraphQL(r.url)
  /\ r.post # NoPost
  /\ ~graphqlPostMatch(c, r.post)

\* C2: every candidate of a response to a query submission whose variables
\* reference another route, productId or companyId than the page's is rejected.
C2_ForeignSubmissionRejected ==
  \A i \in 1..Len(hits) :
    hits[i].src \in RespIds => ~ForeignSubmission(Responses[hits[i].src], ctx)

\* C3: scenario B: when the only captured response is a query-submission body
\* with a code tied to another route's identity (and the page content holds no
\* code), the call returns null, for every currentRoute and onlyThisCode.
C3_ScenarioBReturnsNull ==
  (outcome = "returned" /\ seen = {"feed"} /\ pending = {} /\ usedHits = <<>>)
    => result = <<>>

\* the hit byCode keeps for a code
Survivor(code) ==
  LET kept == byCode(variant, opts.currentRoute, usedHits, <<>>)
  IN kept[CHOOSE i \in 1..Len(kept) : kept[i].code = code]

\* C4: of two accepted candidates with the same code, exactly one of which has
\* a discount, the one with the discount survives the de-duplication, whichever
\* was captured later and whatever their content types.
C4_DiscountSurvives ==
  outcome = "returned" =>
    \A i, j \in 1..Len(usedHits) :
      ( /\ usedHits[i].code = usedHits[j].code
        /\ hasDiscount(variant, usedHits[i])
        /\ ~hasDiscount(variant, usedHits[j]) )
      => hasDiscount(variant, Survivor(usedHits[i].code))

\* hit h is the candidate the result reports
IsResultHit(h) ==
  /\ result # <<>>
  /\ result[1] = Result(h.code, h.src, h.ct,
                        [pct |-> h.pct, amt |-> h.amt, cents |-> h.cents, cur |-> h.cur])

\* C5: the result is the highest-scoring candidate among all accepted
\* candidates; no accepted candidate scores higher than the one returned.
C5_ResultIsHighestScoring ==
  (outcome = "returned" /\ usedHits # <<>>) =>
    \E k \in 1..Len(usedHits) :
      /\ IsResultHit(usedHits[k])
      /\ \A i \in 1..Len(usedHits) :
           score(variant, opts.currentRoute, usedHits[i])
             <= score(variant, opts.currentRoute, usedHits[k])

C7_ResultUsesEverythingCaptured ==
  outcome = "returned" =>
    \A id \in seen :
      LET hs == HandlerHits[variant][ctx][opts.onlyThisCode][id]
      IN \A i \in 1..Len(hs) :
           \E k \in 1..Len(usedHits) :
             usedHits[k].src = id /\ usedHits[k].code = hs[i].code

\* C8: on every exit path (return, navigation or reload failure, timeout) the
\* observer has been detached when the call returns or throws.
C8_DetachedOnExit ==
  outcome \in {"returned", "threw"} => ~attached

\* C9: when the network never becomes idle, the call still returns, within the
\* budget the caller passed as timeoutMs.
C9_WithinTimeoutBudget ==
  (outcome = "returned" /\ InTrace("idle_timeout")) => elapsed <= opts.timeoutMs

\* the result scenario A expects: the code of the record, 20 percent, no amount
ScenarioAResult ==
  /\ Len(result) = 1
  /\ result[1].code = CodeA
  /\ result[1].pct = Num(20)
  /\ result[1].amt = NoNum
  /\ result[1].cur = NullStr

\* C13: scenario A: when a captured response of the page has the body
\* {"popupPromoCode":{"code":"promo-aaaaaa","discountOff":"20%"}} and the
\* route of the page matches, the result carries that code with a percent
\* discount of 20, a null amount and a null currency.
C13_ScenarioA ==
  ( /\ outcome = "returned"
    /\ "doc" \in seen \ pending
    /\ opts.onlyThisCode \in {NullStr, CodeA} )
  => ScenarioAResult

\* scenario A with that response the only one captured
C13_Alone ==
  ( /\ outcome = "returned"
    /\ seen = {"doc"} /\ pending = {}
    /\ opts.onlyThisCode \in {NullStr, CodeA} )
  => ScenarioAResult

\* promo-shaped text: promo- in any letter case, popupPromoCode, promoCode=
PromoShaped(body, urlStr) ==
  \/ \E i \in 1..Len(body) : includes(toLowerCase(body[i].t), PromoDash)
  \/ BodyHas(body, TokHasPopupWord)
  \/ includes(toLowerCase(urlStr), toLowerCase(PromoCodeEq))

\* nothing the visit has produced so far holds promo-shaped text: no response
\* and no URL, and not the content of the page where it was read
NoPromoCaptured ==
  /\ \A id \in seen \cup {m.id : m \in missed} :
        ~PromoShaped(Responses[id].body, UrlString(Responses[id].url))
  /\ ~PromoShaped(<<>>, UrlString(pageUrl))
  /\ \A page \in DOMAIN HtmlPages :
        InTrace(page) => ~PromoShaped(HtmlPages[page], <<>>)

\* C14: scenario C: when no captured response and no URL of the visit holds
\* promo-shaped text, a call that got through its capture ends by returning
\* null: the empty candidate set raises no error.
C14_ScenarioCReturnsNull ==
  (NoPromoCaptured /\ InTrace("off") /\ pc = "done")
  => (outcome = "returned" /\ result = <<>>)

\* a promo-free response was read by the handler and the call returned null
C14_Witness ==
  /\ NoPromoCaptured
  /\ "empty" \in seen \ pending
  /\ pc = "done"
  /\ outcome = "returned"
  /\ result = <<>>

\* C11: when onlyThisCode is supplied, every accepted candidate and any
\* returned result carries exactly that code (compared case-insensitively).
C11_OnlyThatCode ==
  opts.onlyThisCode # NullStr =>
    /\ \A i \in 1..Len(hits) : hits[i].code = toLowerCase(opts.onlyThisCode)
    /\ \A i \in 1..Len(result) : result[i].code = toLowerCase(opts.onlyThisCode)

-----------------------------------------------------------------------------
(* Properties of the batch run (SpecBatch) *)

Recorded(url) ==
  \/ \E i \in 1..Len(batch.visited) : batch.visited[i].url = url
  \/ \E i \in 1..Len(batch.errorLog) : batch.errorLog[i].url = url

\* C10: when the extraction of a page fails (page creation, navigation, reload
\* or extractor error) the failure is recorded for that URL, and the worker
\* gives its slot back so that the remaining URLs are processed.
C10_FailureRecorded ==
  \A url \in BatchUrls :
    batch.worker[url] \in {"done", "rejected"} =>
      /\ Recorded(url)
      /\ batch.active = Cardinality({u \in BatchUrls :
                                       batch.worker[u] \in {"newPage", "goto", "extract",
                                                            "catch", "finally"}})

\* the lines a log holds for a URL among lines lo..hi
LinesFor(log, url, lo, hi) == Cardinality({i \in lo..hi : log[i].url = url})

\* the lines for a URL that the current run found, and those it has written
LinesFound(url) ==
  LinesFor(batch.visited, url, 1, batch.visStart)
    + LinesFor(batch.errorLog, url, 1, batch.errStart)
LinesWritten(url) ==
  LinesFor(batch.visited, url, batch.visStart + 1, Len(batch.visited))
    + LinesFor(batch.errorLog, url, batch.errStart + 1, Len(batch.errorLog))

\* C20: across runs of the extraction phase, a URL that already has a line
\* in the visited log or in the error log is not visited again after a
\* restart, and every visit that completes has appended exactly one line for
\* its URL to exactly one of the two logs.
C20_ResumeSkipsLoggedUrls ==
  \A url \in BatchUrls :
    /\ LinesFound(url) > 0 => batch.worker[url] = "skipped" /\ LinesWritten(url) = 0
    /\ batch.worker[url] \in {"finally", "done"} => LinesWritten(url) = 1
    /\ LinesFound(url) + LinesWritten(url) <= 1

\* after a restart: a URL logged by the earlier run is skipped, another one
\* has been visited and has its one line
C20_Witness ==
  /\ batch.run > 1
  /\ \E u1, u2 \in BatchUrls :
       /\ LinesFound(u1) = 1 /\ batch.worker[u1] = "skipped"
       /\ batch.worker[u2] = "done" /\ LinesWritten(u2) = 1 /\ LinesFound(u2) = 0

\* the lines the current run has written to the visited log for URLs at
\* which a code was found
FoundLines ==
  {i \in (batch.visStart + 1)..Len(batch.visited) :
     batch.visited[i].found /\ batch.visited[i].code # NullStr}

\* C22: the record persisted for a URL at which a code was found carries,
\* besides the code, the source URL of the response the code was taken from
\* and the discount found with it, as the extractor returned them for that
\* visit.
C22_RecordCarriesSourceAndDiscount ==
  \A i \in FoundLines :
    LET line == batch.visited[i]
        h == batch.hit[line.url][1]
    IN /\ line.code = h.code
       /\ line.sourceUrl # <<>> /\ line.sourceUrl = h.src
       /\ line.discountOff = h.pct
       /\ line.amountOff = h.amt

\* the part of C22 the record does carry: the code and the amount
C22_RecordCarriesCodeAndAmount ==
  \A i \in FoundLines :
    LET line == batch.visited[i]
        h == batch.hit[line.url][1]
    IN line.code = h.code /\ line.amountOff = h.amt

\* C24: the discovery queue never receives a duplicate: across any sequence
\* of discovery runs no URL is appended to the queue file if it is already in
\* the queue file or in the visited log, and none is appended twice within a
\* run.
C24_QueueHasNoDuplicate ==
  /\ \A i, j \in 1..Len(disc.queueFile) :
       i # j => disc.queueFile[i].url # disc.queueFile[j].url
  /\ \A i \in 1..Len(disc.queueFile) : ~disc.queueFile[i].logged

\* a later run has skipped a URL an earlier run queued and a URL of the
\* visited log that was never queued, and has appended a new one
C24_Witness ==
  /\ disc.run > 1
  /\ \E i, j \in 1..Len(disc.queueFile), u \in disc.skipped :
       /\ disc.queueFile[i].run < disc.run
       /\ disc.queueFile[i].url \in disc.skipped
       /\ disc.queueFile[j].run = disc.run
       /\ u \in disc.visitedLog /\ u \notin loadSet(disc.queueFile)

\* the arrivals of the visit that carry a promo: a scanned content type and a
\* body extractPromoFromBody finds a promo in
Matching ==
  {i \in 1..Len(scrape.arrived) :
     /\ IsJsonOrText(ScrapeResponses[scrape.arrived[i]].ct)
     /\ extractPromoFromBody(ScrapeResponses[scrape.arrived[i]].body) # <<>>}

BottomPromo ==
  IF Matching = {} THEN <<>>
  ELSE extractPromoFromBody(
         ScrapeResponses[scrape.arrived[CHOOSE i \in Matching : \A j \in Matching : j <= i]].body)

\* C23: for one page visit scrapeOne reports the promo carried by the
\* matching response that was received last during the visit (the bottom
\* result), whatever the order in which the body reads of the responses
\* complete.
C23_ReportsBottomResult ==
  /\ scrape.outcome = "returned"
  /\ Matching \subseteq {scrape.completed[k] : k \in 1..Len(scrape.completed)}
  => scrape.result = BottomPromo

\* what the code does: it reports the promo of the matching response whose
\* body read completed last before the return
C23_ReportsLastCompleted ==
  scrape.outcome = "returned" =>
    LET done == SelectSeq(scrape.completed, LAMBDA i : i \in Matching)
    IN scrape.result =
         IF done = <<>> THEN <<>>
         ELSE extractPromoFromBody(ScrapeResponses[scrape.arrived[done[Len(done)]]].body)

\* the page extractions in progress: the workers of phase B between their
\* active++ and their active--, the workers of runPool that have not settled
InProgress ==
  IF batch # <<>>
  THEN Cardinality({u \in BatchUrls :
                      batch.worker[u] \in {"newPage", "goto", "extract", "catch", "finally"}})
  ELSE Cardinality(pool.running)

Configured == IF batch # <<>> THEN batch.concurrency ELSE pool.concurrency

\* C21: at every moment of a batch run the number of page extractions in
\* progress is at most the configured concurrency, in phase B
\* (processQueue/worker) and in runPool.
C21_AtMostConcurrency == InProgress <= Configured

\* runPool after a worker has settled, with every slot taken again while an
\* item still waits in its queue
C21_Witness ==
  /\ pool # <<>>
  /\ pool.done > 0
  /\ pool.queue # <<>>
  /\ Cardinality(pool.running) = pool.concurrency

\* phase B with every slot taken while a URL still waits
C21_WitnessPhaseB ==
  /\ batch # <<>>
  /\ ~batch.stopping
  /\ batch.queueIndex < Len(batch.toProcess)
  /\ InProgress = batch.concurrency

-----------------------------------------------------------------------------
(* Properties of the helpers (SpecUnit) *)

\* the call is one of accept on a response of the expected host whose body
\* holds a structured popupPromoCode record and whose body or URL names the
\* route of the page, with no GraphQL URL and nothing posted
StructuredForThisPage ==
  /\ unit.fn = "accept"
  /\ IsExpectedHost(hostname(unit.in.url))
  /\ BodyHasKeyColon(unit.in.body, "popupPromoCode")
  /\ unit.in.ctx.route # NullStr
  /\ \/ BodyHasWhopLink(unit.in.body, unit.in.ctx.route)
     \/ includes(UrlString(unit.in.url), Slash \o unit.in.ctx.route)
  /\ ~isGraphQL(unit.in.url)
  /\ unit.in.post = NoPost

\* C12: a response of the expected host with a structured popupPromoCode
\* record and a reference to the page's route, in its body or its URL, is
\* accepted by the attribution filter although it carries no GraphQL URL and
\* no posted variables.
C12_StructuredAccepted == StructuredForThisPage => unit.out = TRUE

\* such a call with a content type that no other rule accepts, accepted
C12_Witness ==
  /\ StructuredForThisPage
  /\ unit.in.ct = MimeJs
  /\ unit.out = TRUE

\* the member each normalizer reads as a percentage
PercentField(fn) ==
  CASE fn = "extractDiscountFieldsFromSnippet" -> "discountOff"
    [] fn = "normalizeDiscountFromObject" -> "percentOff"
    [] fn = "extractDiscountNearCode" -> "discountPercent"

\* C15: percent normalization maps a numeric percentage member in (0,1] to
\* that value times 100 (0.30 gives 30) and leaves a numeric value greater
\* than 1 as it is (45 gives 45).
C15_FractionTimesHundred ==
  ( /\ unit.fn = "normalize"
    /\ unit.in.key = PercentField(unit.in.fn)
    /\ unit.in.value.k \in {"num", "dec"} )
  => LET x == unit.in.value
     IN CASE x.k = "num" /\ x.n = 1 -> unit.out.pct = Num(100)
          [] x.k = "dec" /\ x.n > 0 /\ x.n <= 100 -> unit.out.pct = Num(x.n)
          [] OTHER -> unit.out.pct = NumberOf(x)

Resolved == unit.fn = "getPageContext" /\ unit.out # Threw

\* C17 as stated: the route is non-null whenever the page URL parses, with
\* or without a hint, and null only when the URL does not parse.
C17_RouteOfWellFormedUrl ==
  Resolved =>
    /\ UrlParses(unit.in.url) => unit.out.route # NullStr
    /\ unit.out.route = NullStr => ~UrlParses(unit.in.url)

\* C17: the route is non-null whenever the page URL parses and its path has
\* a non-empty segment, or a hint is given; it is the first such segment
\* where there is one, else the hint, and null only where the URL has no
\* segment (or does not parse) and no hint is given.
C17_RouteOfUrlOrHint ==
  Resolved =>
    LET u == unit.in.url
        hasSeg == UrlParses(u) /\ \E k \in 1..Len(u.path) : u.path[k] # <<>>
    IN /\ hasSeg => unit.out.route # NullStr /\ unit.out.route = routeFromUrl(u)
       /\ (~hasSeg /\ unit.in.hint # NullStr) => unit.out.route = unit.in.hint
       /\ unit.out.route = NullStr <=> (~hasSeg /\ unit.in.hint = NullStr)

\* the root of the site with a hint: the route is the hint
C17_Witness ==
  /\ Resolved
  /\ unit.in.url = RootUrl
  /\ unit.in.hint = RouteB
  /\ unit.out.route = RouteB

\* C18: getPageContext never throws: for every page URL, parseable or not,
\* and every outcome of reading the inline data of the page, a failed read
\* included, it returns a PageIdentity whose missing signals are null.
C18_ResolverNeverThrows ==
  unit.fn = "getPageContext" =>
    /\ unit.out # Threw
    /\ unit.in.evaluate.kind = "rejected" =>
          unit.out.productId = NullStr /\ unit.out.companyId = NullStr

\* promo- followed by at least 6 characters of [a-z0-9-], all in lower case
LowerCodeShape(code) ==
  /\ Len(code) >= Len(PromoDash) + MinCodeTail
  /\ startsWith(code, PromoDash)
  /\ \A k \in 1..Len(code) : code[k] \in LowerAlnum \cup {"-"}

\* C19: every code of an accepted candidate or of a returned result is in
\* lower case and has the shape promo- plus at least 6 characters of
\* [a-z0-9-], on every path that yields a result and for every option.
C19_CodesLowerCaseShape ==
  unit.fn = "extract" =>
    /\ \A k \in 1..Len(unit.out.hits) : LowerCodeShape(unit.out.hits[k].code)
    /\ \A k \in 1..Len(unit.out.result) : LowerCodeShape(unit.out.result[k].code)

\* the response names a route: a "route" member or a whop.com link in its body
RouteSignal(body) ==
  \/ BodyHasKeyColon(body, "route")
  \/ \E i \in 1..Len(body) : body[i].k = "link"

\* the route of the page is in the body or in the URL of the response
RouteSeen(c, u, body) ==
  /\ c.route # NullStr
  /\ \/ BodyHasWhopLink(body, c.route)
     \/ includes(UrlString(u), Slash \o c.route)

\* C25: for a response of the expected host, the structured-record rule of
\* accept holds exactly when the body has a structured popupPromoCode record
\* and either the route of the page is in the body or the URL of the response
\* or there is no route signal (the route of the page is unknown, or the
\* response names no route at all); a response the rule holds for is accepted
\* before the GraphQL rule is looked at.
C25_StructuredRuleExact ==
  (unit.fn = "accept" /\ hostIsWhop(hostname(unit.in.url))) =>
    /\ acceptStructured(unit.in.ctx, unit.in.url, unit.in.body)
          <=> /\ BodyHasKeyColon(unit.in.body, "popupPromoCode")
              /\ \/ RouteSeen(unit.in.ctx, unit.in.url, unit.in.body)
                 \/ unit.in.ctx.route = NullStr
                 \/ ~RouteSignal(unit.in.body)
    /\ acceptStructured(unit.in.ctx, unit.in.url, unit.in.body) => unit.out = TRUE

\* the order of the rules alone: a response the structured rule holds for is
\* accepted whatever its URL and its posted variables are
C25_StructuredDecidesFirst ==
  (unit.fn = "accept" /\ hostIsWhop(hostname(unit.in.url))
     /\ acceptStructured(unit.in.ctx, unit.in.url, unit.in.body)) => unit.out = TRUE

\* rule 3 as the claim has it: a GraphQL submission whose posted variables
\* name the route, the productId or the companyId of the page
SubmissionForThisPage ==
  /\ isGraphQL(unit.in.url)
  /\ graphqlPostMatch(unit.in.ctx, unit.in.post)

\* rule 4 as the claim has it: an HTML, JSON or component response whose URL
\* or body references the route of the page
DocumentForThisPage ==
  /\ IsDocCt(unit.in.ct)
  /\ RouteSeen(unit.in.ctx, unit.in.url, unit.in.body)

\* C26: accept returns true only for a response of the expected host (whop.com
\* or a subdomain of it) that has a structured popupPromoCode record in its
\* body, or is a GraphQL submission for this page, or is an HTML, JSON or
\* component response that references the route of the page; with the route
\* of the page unknown the last rule accepts nothing.
C26_AcceptedOnlyByARule ==
  (unit.fn = "accept" /\ unit.out = TRUE) =>
    /\ IsExpectedHost(hostname(unit.in.url))
    /\ \/ BodyHasKeyColon(unit.in.body, "popupPromoCode")
       \/ SubmissionForThisPage
       \/ DocumentForThisPage

\* the code's own host test in place of the expected domain, and any reference
\* to the page in the body of a GraphQL response counted as rule 3
C26_AcceptedOnlyByACodeRule ==
  (unit.fn = "accept" /\ unit.out = TRUE) =>
    /\ hostIsWhop(hostname(unit.in.url))
    /\ \/ BodyHasKeyColon(unit.in.body, "popupPromoCode")
       \/ SubmissionForThisPage
       \/ isGraphQL(unit.in.url) /\ graphqlBodyMatch(unit.in.ctx, unit.in.body)
       \/ DocumentForThisPage

-----------------------------------------------------------------------------
(* Properties of the first version of the extractor (SpecLegacy) *)

\* C27: the identity of the page is derived once, before any response is
\* examined, and does not change afterwards: at every later point of the call
\* it is the identity that was derived when the call started, whatever
\* responses the handler has processed.
C27_IdentityFixedBeforeResponses ==
  legacy.step # "url" => legacy.pageCtx = contextOfUrl(legacy.pageUrl)

\* the two current extractors: ctx is assigned by the getPageContext step and
\* by nothing else, and the handler is subscribed only after it
C27_CurrentIdentityFixed ==
  [][/\ pc # "context" => ctx' = ctx
     /\ attached' /\ ~attached => ctx' = ctx /\ pc = "on"]_vars

\* page operations of one kind issued so far
Issued(tr, op) == Len(SelectSeq(tr, LAMBDA x : x = op))

\* C30: a finished call has issued exactly one reload, never a further one
\* after an empty capture or a failure, and a reload that failed has ended
\* the call with an exception for the caller.
C30_OneReloadNoRetry ==
  legacy.step = "done" =>
    /\ Issued(legacy.trace, "reload") = 1
    /\ legacy.failed => legacy.outcome = "threw"

\* the two current extractors: at most one goto and one reload of their own,
\* exactly one of each in a call that returns, and a call in which one of
\* them was rejected ends with the exception
C30_CurrentOneLoadOneReload ==
  /\ Issued(trace, "goto") <= 1
  /\ Issued(trace, "reload") <= 1
  /\ Issued(trace, "reload") = 1 => Issued(trace, "goto") = 1
  /\ outcome = "returned" => Issued(trace, "goto") = 1 /\ Issued(trace, "reload") = 1
  /\ outcome = "threw" => pc = "threw" /\ result = <<>>

-----------------------------------------------------------------------------
(* Properties of the record slicers (SpecUnit) *)

\* the brace-balanced records of a text that enclose an offset
EnclosingSpans(text, idx) ==
  {sp \in [lo : 1..Len(text), hi : 1..Len(text)] :
     /\ text[sp.lo].k = "lb"
     /\ sp.hi = closeAfter(text, sp.lo)
     /\ sp.lo < idx /\ idx < sp.hi}

\* C28: the record slice chosen for an offset of a body encloses the offset
\* and is the smallest brace-balanced record of the body that does.
C28_SliceIsSmallestEnclosing ==
  (unit.fn = "slice" /\ unit.out.span # NoSpan) =>
    /\ unit.out.span \in EnclosingSpans(unit.in.body, unit.in.index)
    /\ \A sp \in EnclosingSpans(unit.in.body, unit.in.index) : sp.lo <= unit.out.span.lo

\* the slice is the text between the two ends of its span
C28_SpanOfSlice ==
  (unit.fn = "slice" /\ unit.out.span # NoSpan) =>
    unit.out.slice = SubSeq(unit.in.body, unit.out.span.lo, unit.out.span.hi)

\* what the slicers do guarantee: a slice that does enclose the offset is the
\* smallest record that does
C28_EnclosingSliceIsSmallest ==
  (unit.fn = "slice" /\ unit.out.span \in EnclosingSpans(unit.in.body, unit.in.index)) =>
    \A sp \in EnclosingSpans(unit.in.body, unit.in.index) : sp.lo <= unit.out.span.lo

-----------------------------------------------------------------------------
(* Properties of the windowed fallback (SpecUnit) *)

\* a discount member is written in the text: "discountOff":"<n>%",
\* "amountOff":<n> or "amountOffInCents":<n>
DiscountFieldIn(w) ==
  \E i \in 1..(Len(w) - 2) :
     /\ w[i + 1] = COLON
     /\ \/ w[i] = Key("discountOff") /\ w[i + 2].k = "pct"
        \/ w[i] \in {Key("amountOff"), Key("amountOffInCents")} /\ w[i + 2].k \in {"num", "dec"}

\* no brace-balanced record that parses encloses the offset
NoRecordAround(body, idx) ==
  \A sp \in EnclosingSpans(body, idx) : ~JsonParses(SubSeq(body, sp.lo, sp.hi))

\* the slicer of the extractor gives no record that parses
SlicerFails(v, body, idx) ==
  IF v = "response" THEN extractNearestJsonObject(body, idx) = <<>>
  ELSE ~JsonParses(sliceEnclosingJsonObject(body, idx))

HasDiscount(d) == d.pct # NoNum \/ d.amt # NoNum \/ d.cents # NoNum

\* C29: when no balanced record around the occurrence of the code can be
\* parsed, the windowed fallback is applied to the same body: the candidate
\* is without a discount only if the window around the occurrence holds no
\* discount member either.
C29_FallbackRecovers ==
  (/\ unit.fn = "discount"
   /\ NoRecordAround(unit.in.body, unit.in.index)
   /\ DiscountFieldIn(sliceAround(unit.in.body, unit.in.index, FallbackPad)))
    => HasDiscount(unit.out)

\* the same with the failure of the extractor's own slicer as the condition
C29_FallbackWhenSlicerFails ==
  (/\ unit.fn = "discount"
   /\ SlicerFails(unit.in.v, unit.in.body, unit.in.index)
   /\ DiscountFieldIn(sliceAround(unit.in.body, unit.in.index, FallbackPad)))
    => HasDiscount(unit.out)

\* a cut-off record whose discount the fallback recovers
C29_RecoveredFromCutOffRecord ==
  /\ unit.fn = "discount"
  /\ unit.in.body = BodyUnclosedA
  /\ SlicerFails(unit.in.v, unit.in.body, unit.in.index)
  /\ unit.out.pct = Num(20)

-----------------------------------------------------------------------------
(* Properties of the score (SpecUnit) *)

\* the three bonuses of a hit: discount present, JSON or RSC, route of the page
Bonuses(v, cr, h) ==
  <<hasDiscount(v, h), IsJsonOrRsc(h.ct),
    h.route # NullStr /\ cr # NullStr /\ toLowerCase(h.route) = toLowerCase(cr)>>

BonusSum(v, b) ==
  (IF b[1] THEN (IF v = "response" THEN DiscountBonus ELSE BundleBonus) ELSE 0)
    + (IF b[2] THEN JsonBonus ELSE 0) + (IF b[3] THEN RouteBonus ELSE 0)

-----------------------------------------------------------------------------
(* Properties of the discount backfill (SpecBackfill) *)

KindsOf(r) ==
  {job.existing[k].kind : k \in {j \in 1..Len(job.existing) : job.existing[j].rec = r}}

\* the pair is not among the records the run goes on to process
Skipped(r) == \A k \in 1..Len(job'.remaining) : job'.remaining[k] # r

\* C32: on resume a pair with an output line is skipped, except that with
\* REDO_FAIL=1 a pair whose line records an error is processed again and with
\* REDO_NULL=1 a pair whose line has no discount is processed again; a pair
\* with a line that has a discount is never processed again.
C32_ResumeSkipsDonePairs ==
  [][job.step = "resume" =>
       \A r \in Records :
          /\ "discount" \in KindsOf(r) => Skipped(r)
          /\ KindsOf(r) = {"error"} => (Skipped(r) <=> ~job.redoFail)
          /\ KindsOf(r) = {"null"} => (Skipped(r) <=> ~job.redoNull)]_vars

\* what the resume does guarantee: a pair with a discount line is skipped, a
\* pair without a line is processed, a pair with nothing but lines without a
\* discount is redone with REDO_NULL=1 and only then, and with both switches
\* on every pair without a discount line is processed again
C32_DiscountLinesSkipped ==
  [][job.step = "resume" =>
       \A r \in Records :
          /\ "discount" \in KindsOf(r) => Skipped(r)
          /\ KindsOf(r) = {} => ~Skipped(r)
          /\ KindsOf(r) = {"null"} => (Skipped(r) <=> ~job.redoNull)
          /\ (job.redoFail /\ job.redoNull /\ "discount" \notin KindsOf(r)) => ~Skipped(r)]_vars

\* the calls of the extractor one call of tryExtract has made
Calls == Len(SelectSeq(job.tries, LAMBDA x : x # "reload"))

C39_PagesClosedAfterRecord ==
  job.step \in {"next", "done", "crashed"} => job.pages = {} /\ ~job.leaked

\* an iteration that opened the base page, the discovery page and a product
\* page, failed on the product page, wrote the error line and closed all
C39_Witness ==
  /\ job.step = "next"
  /\ job.opened = 3
  /\ job.tries # <<>> /\ job.tries[Len(job.tries)] = "throws"
  /\ job.out # <<>> /\ job.out[Len(job.out)] = [rec |-> job.rec, kind |-> "error"]
  /\ job.pages = {}

\* the same for a record whose discount was found on a product page
C39_WitnessFound ==
  /\ job.step = "next"
  /\ job.opened = 3
  /\ job.page = "prod"
  /\ job.out # <<>> /\ job.out[Len(job.out)] = [rec |-> job.rec, kind |-> "discount"]
  /\ job.pages = {}

(***************************************************************************)
(* Properties of the loops over the listing pages (SpecCollect,            *)
(* SpecDiscover)                                                           *)
(***************************************************************************)

\* C34: the loop over the listing pages ends after at most maxPages pages; it
\* stops early at the first page without links more than one page after the
\* last page with links; an error on one listing page does not stop the loop
\* (here: whatever has stopped the loop of collectAllWhopLinksFromWhpCodes,
\* it was not an error on a listing page).
C34_ErrorDoesNotStopLoop ==
  job # <<>> => job.stoppedBy # "error"

\* the rest of C34 for the same loop: at most maxPages pages are loaded, and
\* the rule for the empty pages stops it only where the sentence says
C34_CollectAtMostMaxPages ==
  job # <<>> =>
    /\ job.loaded <= WHPCODES_MAX_PAGES
    /\ job.stoppedBy = "empty" =>
         job.lastNonEmptyPage # 0 /\ job.n > job.lastNonEmptyPage + 1
    /\ job.stoppedBy = "maxPages" => job.n = WHPCODES_MAX_PAGES + 1

\* the loop of collectAllWhopLinksFromWhpCodes stopped by an error before
\* maxPages pages were loaded, the page still open
C34_StoppedByError ==
  /\ job # <<>>
  /\ job.stoppedBy = "error"
  /\ job.loaded < WHPCODES_MAX_PAGES
  /\ job.collected # {}
  /\ job.pageOpen

\* C34 for the page loop of discoverAll, where the turn sits in a try: the
\* loop never goes past maxPages
C34_DiscoverAllAtMostMaxPages ==
  disc # <<>> => disc.n <= MaxPages + 1

\* ... and it ends only at maxPages or at a page more than one page after the
\* last page with links
C34_DiscoverAllEndsByRule ==
  [][disc # <<>> /\ disc.phase = "pages" /\ disc'.phase = "ended"
       => \/ disc.n > MaxPages
          \/ disc.lastNonEmptyPage # 0 /\ disc.n > disc.lastNonEmptyPage + 1]_vars

\* discoverAll stopped early by the rule for the empty pages
C34_DiscoverAllStoppedEarly ==
  /\ disc # <<>>
  /\ disc.phase = "ended"
  /\ disc.n <= MaxPages
  /\ disc.queueFile # <<>>

(***************************************************************************)
(* Properties of the discount update (SpecUpdate)                          *)
(***************************************************************************)

\* the lines of the output written for the record at place i of the log
LinesOf(i) == SelectSeq(job.out, LAMBDA l : l.rec = i)

\* C35: in one run of the discount update every record of the visited log is
\* written to the output exactly once: a record without a code unchanged, a
\* record with a code updated, or unchanged when its revisit failed.
C35_EveryRecordWrittenOnce ==
  job # <<>> /\ job.step = "done" =>
    \A i \in 1..Len(job.allRecords) :
      /\ Len(LinesOf(i)) = 1
      /\ ~job.allRecords[i] => LinesOf(i)[1].form = "original"

\* what holds of a completed run: every record has a line, a record without
\* a code exactly one, unchanged; a record with a code at most two, the
\* second one the original record
C35_EveryRecordWritten ==
  job # <<>> /\ job.step = "done" =>
    \A i \in 1..Len(job.allRecords) :
      /\ Len(LinesOf(i)) >= 1
      /\ ~job.allRecords[i] => LinesOf(i) = <<[rec |-> i, form |-> "original"]>>
      /\ job.allRecords[i] =>
           \/ Len(LinesOf(i)) = 1
           \/ Len(LinesOf(i)) = 2 /\ LinesOf(i)[1].form # "original"
                                  /\ LinesOf(i)[2].form = "original"

\* a completed run that wrote a record twice: updated, then the original
C35_WrittenTwice ==
  /\ job # <<>>
  /\ job.step = "done"
  /\ \E i \in 1..Len(job.allRecords) :
       LinesOf(i) = <<[rec |-> i, form |-> "updated"], [rec |-> i, form |-> "original"]>>

\* a run that died on context.newPage() with records left unwritten
C35_RunDiedEarly ==
  /\ job # <<>>
  /\ job.step = "rejected"
  /\ \E i \in 1..Len(job.allRecords) : LinesOf(i) = <<>>

(***************************************************************************)
(* Properties of runPool (SpecRunPool)                                     *)
(***************************************************************************)

\* the calls worker(item) made so far for the item
CallsOf(item) == {k \in 1..Len(pool.calls) : pool.calls[k] = item}

\* no item is handed to the worker twice; the promise is resolved only with
\* the queue empty, no worker active and every item handed over once, after
\* a rejection as well; and with the queue empty, no worker active and no
\* tick due it is resolved
PoolSafe ==
  /\ \A k \in 1..Len(pool.items) : Cardinality(CallsOf(pool.items[k])) <= 1
  /\ pool.resolved =>
       /\ pool.queue = <<>> /\ pool.active = 0 /\ pool.running = {}
       /\ \A k \in 1..Len(pool.items) : Cardinality(CallsOf(pool.items[k])) = 1
  /\ pool.queue = <<>> /\ pool.active = 0 /\ pool.timers = 0 => pool.resolved

\* C36: runPool hands each item to the worker exactly once, goes on after a
\* rejected call, resolves exactly when the queue is empty and no worker is
\* active, and, every call of the worker settling, resolves in the end, for
\* the empty list too (as the sentence has it: whatever the concurrency).
C36_RunPoolResolves ==
  []PoolSafe /\ <>pool.resolved

\* C36 for a concurrency of at least 1
C36_RunPoolResolvesWithASlot ==
  []PoolSafe /\ (pool.concurrency >= 1 ~> pool.resolved)

\* runPool resolved after every item was handed over once, one of the calls
\* rejected and a later item handed over after it
C36_Witness ==
  /\ pool # <<>>
  /\ pool.resolved
  /\ Len(pool.items) >= 2
  /\ Len(pool.calls) = Len(pool.items)
  /\ pool.items[1] \in pool.rejected
  /\ pool.done = Len(pool.items)

\* runPool resolved at once for the empty list
C36_EmptyListResolved ==
  pool # <<>> /\ pool.items = <<>> => pool.resolved

\* runPool with items queued and no slot: nothing is running and no tick is due
C36_NeverResolves ==
  /\ pool # <<>>
  /\ pool.concurrency = 0
  /\ pool.queue # <<>>
  /\ pool.timers = 0 /\ pool.running = {}
  /\ ~pool.resolved

(***************************************************************************)
(* Properties of the workers of phase B and of the shutdown                *)
(* (SpecBatchFair, SpecBatch)                                              *)
(***************************************************************************)

\* a worker of the run between its active++ and its active--
HoldsSlot(url) ==
  batch.worker[url] \in {"newPage", "goto", "extract", "catch", "finally", "rejected"}

\* extractAll has ended as written: gracefulShutdown ran to process.exit(0),
\* or there was nothing to process
EndedGracefully == batch.exited \in {"exit0", "returned"}

\* context.newPage() has rejected for a worker of the run
NewPageRejected == \E url \in BatchUrls : batch.worker[url] = "rejected"

\* C37: every worker that has incremented active decrements it in the end,
\* whichever of its steps fails, so that active returns to zero and
\* processQueue and gracefulShutdown end.
C37_ActiveReturnsToZero ==
  /\ \A url \in BatchUrls : HoldsSlot(url) ~> ~HoldsSlot(url)
  /\ batch.active > 0 ~> batch.active = 0
  /\ <>EndedGracefully

\* what holds: unless the creation of a page fails, a worker releases its
\* slot, whether navigation, extraction or the write of the visited line
\* fails, active returns to zero and the run ends
C37_ReleasedUnlessNewPageRejects ==
  /\ \A url \in BatchUrls : HoldsSlot(url) ~> (~HoldsSlot(url) \/ NewPageRejected)
  /\ batch.active > 0 ~> (batch.active = 0 \/ NewPageRejected)
  /\ <>(EndedGracefully \/ NewPageRejected)

\* a worker ended on the rejection of context.newPage() with its slot still
\* counted, the process alive and the shutdown waiting for it
C37_SlotNeverReleased ==
  /\ Alive
  /\ \E url \in BatchUrls : batch.worker[url] = "rejected"
  /\ \A url \in BatchUrls : batch.worker[url] \in {"rejected", "done", "skipped"}
  /\ batch.active > 0
  /\ batch.shutdown = "waiting"

\* a step of the run itself, not the start of the next run
SameRun == batch'.run = batch.run

\* C38: after a shutdown signal no new URL is dispatched to a worker; the
\* descriptors of the visited and the error log are closed only when no
\* worker is active; and in every interleaving of the workers, the dispatcher
\* and the signal handler no worker writes to a closed descriptor.
C38_NoWriteAfterClose ==
  /\ [](batch.shutdown = "closed" =>
          batch.active = 0 /\ \A url \in BatchUrls : ~HoldsSlot(url))
  /\ [][batch.stopping /\ SameRun => batch'.queueIndex = batch.queueIndex]_vars
  /\ [][batch.shutdown = "closed" /\ SameRun =>
          batch'.visited = batch.visited /\ batch'.errorLog = batch.errorLog]_vars

\* the descriptors closed after a signal that came with a worker at work and
\* URLs left in the list: the worker has written its line, the URLs left
\* were not dispatched, and context.close() is awaited
C38_Witness ==
  /\ Alive
  /\ batch.shutdown = "closed"
  /\ batch.queue = "dispatching"
  /\ batch.queueIndex < Len(batch.toProcess)
  /\ batch.idx >= 1
  /\ Len(batch.visited) + Len(batch.errorLog) > batch.visStart + batch.errStart

====
